---- MODULE Spec2Model ----
(***************************************************************************)
(* A model of the Vortex daemon's deployment state machine and state store *)
(* (src/unnamed/part_001, second half), of its path guard (safePath,       *)
(* isValidArchiveName; src/unnamed/part_001, first half) and of the        *)
(* path handling of its filesystem-facing routes.                          *)
(*                                                                         *)
(* Request handlers are async functions: a handler runs without            *)
(* interruption up to its next await, so every action below is the code    *)
(* between the completion of one awaited call and the start of the next.   *)
(***************************************************************************)
EXTENDS Naturals, Integers, Sequences, FiniteSets, TLC

VARIABLES
    statesFile,   \* states.json: whether it exists, whether it parses, and its records
    containers,   \* the runtime's containers, by name
    volumes,      \* the instance ids that have a volume directory
    req,          \* the requests accepted so far, one handler each
    accepted,     \* how many requests were accepted
    serial,       \* TRUE: a request arrives only when no handler is in flight
    hist,         \* the id a client polls with getState, and the distinct values it saw
    lastSet,      \* <<id, state>> when the last write of states.json was setState's
    pathIn,       \* safePath's arguments (base, target)
    pathOut,      \* what safePath and isValidArchiveName made of pathIn
    fsReq,        \* a request to a filesystem-facing route
    fsOut,        \* what its handler did up to its first access to the disk
    disk,         \* the directories and files under the volume root, by path
    archives,     \* the archive root: per instance id, its subdirectory's entries
    volume,       \* the volume directory the archive routes work on
    clock,        \* the wall clock, in the milliseconds of an archive's name
    areq,         \* the archive-route requests in flight, one handler each
    alog,         \* what the archive routes answered so far
    subFs,        \* the directory handed to replaceVariables
    subRun,       \* a call of replaceVariables: its mapping and its per-file tasks
    dlFs,         \* the directory install scripts are downloaded into
    dlRun         \* a call of downloadInstallScripts and its downloadFile calls

vars == <<statesFile, containers, volumes, req, accepted, serial, hist, lastSet,
          pathIn, pathOut, fsReq, fsOut, disk,
          archives, volume, clock, areq, alog, subFs, subRun, dlFs, dlRun>>

deployVars == <<statesFile, containers, volumes, req, accepted, serial, hist, lastSet>>
pathVars == <<pathIn, pathOut>>
fsVars == <<fsReq, fsOut, disk>>
archVars == <<archives, volume, clock, areq, alog>>
subVars == <<subFs, subRun>>
dlVars == <<dlFs, dlRun>>

(***************************************************************************)
(* Bounds                                                                  *)
(***************************************************************************)
MaxRequests == 2      \* requests accepted in one behaviour
MaxScripts == 2       \* install scripts of one POST /create
MaxPathLen == 6       \* characters of a target handed to safePath
MaxIdLen == 4         \* characters of an id segment sent to a route

Slots == 1..MaxRequests
Ids == {"app1", "app2"}

\* The states the deployment code itself stores, and DELETED.
DeployStates == {"PULLING_IMAGE", "CREATING_VOLUME", "CREATING_CONTAINER",
                 "INSTALLING", "STARTING", "RUNNING", "INSTALLATION_FAILED",
                 "FAILED", "DELETED"}

\* The :state segment of GET /:id/states/set/:state is any string: one member
\* of the enumerated set and one string outside it stand for all of them.
RouteStates == {"RUNNING", "BOGUS"}

\* The states the bare store calls are made with.
CallStates == {"RUNNING", "FAILED"}

(***************************************************************************)
(* The state store                                                         *)
(***************************************************************************)
Entry(id, state) == [Id |-> id, State |-> state]

\* data.find((entry) => entry.Id === id): the index of the first match, or 0
FindEntry(data, id) ==
    IF \E i \in 1..Len(data) : data[i].Id = id
    THEN CHOOSE i \in 1..Len(data) :
            /\ data[i].Id = id
            /\ \A j \in 1..(i - 1) : data[j].Id # id
    ELSE 0

\* getState's result on the parsed document: item ? item.State : null
getState(data, id) ==
    IF FindEntry(data, id) = 0 THEN "null" ELSE data[FindEntry(data, id)].State

\* A bug setState could have: the new record is pushed, the old one is kept.
SetStateData_NoFilter(data, id, state) == Append(data, Entry(id, state))

\* setState's newData: data.filter(entry => entry.Id !== id), then push
SetStateData(data, id, state) ==
    Append(SelectSeq(data, LAMBDA e : e.Id # id), Entry(id, state))

\* setStateValue's data after item.State = state (item is the first match)
SetStateValueData(data, id, state) ==
    [data EXCEPT ![FindEntry(data, id)].State = state]

\* A bug setStateValue could have: a missing record is not refused.
SetStateValueMissing_Never(data, id) == FALSE

\* setStateValue's `if (!item) throw new Error(...)`
SetStateValueMissing(data, id) == FindEntry(data, id) = 0

RecordsFor(data, id) == {i \in 1..Len(data) : data[i].Id = id}

\* What the client that polls getState(hist.id) has seen after a write: the
\* client of a POST /create polls the request's Id from the moment it sends it.
Observe(h, data) ==
    LET v == getState(data, h.id) IN
    IF h.id # "" /\ v # "null" /\ (h.seen = <<>> \/ h.seen[Len(h.seen)] # v)
    THEN [h EXCEPT !.seen = Append(@, v)] ELSE h

Seen(data) == IF serial THEN Observe(hist, data) ELSE hist

(***************************************************************************)
(* Requests                                                                *)
(***************************************************************************)
NoRequest ==
    [kind |-> "none", id |-> "", state |-> "", dl |-> <<>>, badVars |-> FALSE,
     pc |-> "idle", op |-> "none", opState |-> "", io |-> "none", buf |-> <<>>,
     sent |-> 0, attempts |-> 0, rejected |-> FALSE, created |-> FALSE,
     started |-> FALSE, fault |-> "none", result |-> "", sawSet |-> <<>>,
     body |-> "ok", stopped |-> FALSE, removed |-> FALSE, rm |-> FALSE]

ClearOp(q) == [q EXCEPT !.op = "none", !.opState = "", !.io = "none", !.buf = <<>>]

\* The call of setState/setStateValue up to its first await: ensureStatesFile's
\* existsSync is synchronous, what follows it (writeFile or readFile) is awaited.
BeginStore(q, op, state) ==
    [q EXCEPT !.pc = "store", !.op = op, !.opState = state, !.buf = <<>>,
              !.io = IF statesFile.exists THEN "validate" ELSE "create"]

Finish(q) == [ClearOp(q) EXCEPT !.pc = "done"]

\* res.status(code).json(...): once a response was sent, json() throws
\* (ERR_HTTP_HEADERS_SENT) and nothing more reaches the caller.
Respond(q, code) ==
    IF q.sent = 0
    THEN [q EXCEPT !.sent = code, !.attempts = @ + 1]
    ELSE [q EXCEPT !.attempts = @ + 1, !.rejected = TRUE]

Fault(q, what) == [q EXCEPT !.fault = IF @ = "none" THEN what ELSE @]

\* A bug the install phase could have: install runs whether or not scripts exist.
HasInstallScripts_Always(q) == TRUE

\* Scripts?.Install?.length
HasInstallScripts(q) == Len(q.dl) > 0

\* A bug downloadInstallScripts could have: one failed download is tolerated.
DownloadsFailed_MoreThanOne(dl) == Cardinality({i \in 1..Len(dl) : dl[i] = "failed"}) > 1

\* failedDownloads.length > 0
DownloadsFailed(dl) == Cardinality({i \in 1..Len(dl) : dl[i] = "failed"}) > 0

\* A bug the outer catch could have: the failure is answered, the state is not stored.
CreateCatch_NoState(q) == Finish(Respond(ClearOp(q), 500))

\* POST /create's outer catch: await setStateValue(Id, "FAILED"), then the 500
CreateCatch(q) == BeginStore(q, "setStateValue", "FAILED")

\* POST /create's inner catch: await setStateValue(Id, "INSTALLATION_FAILED"); return
InstallCatch(q) == BeginStore(q, "setStateValue", "INSTALLATION_FAILED")

\* An exception in POST /create, by where the handler is.
CreateThrow(q, what) ==
    IF q.pc \in {"download", "replaceVariables"}
    THEN InstallCatch(Fault(q, what))
    ELSE IF q.pc = "store" /\ q.opState = "FAILED"
         THEN [Finish(Fault(q, what)) EXCEPT !.rejected = TRUE]
         ELSE CreateCatch(Fault(q, what))

\* A bug POST /create could have: the 201 is sent when the deployment has ended.
CreateAfterContainer_AnswerLate(q) ==
    IF HasInstallScripts(q)
    THEN BeginStore([q EXCEPT !.created = TRUE], "setState", "INSTALLING")
    ELSE BeginStore([q EXCEPT !.created = TRUE], "setState", "STARTING")

\* POST /create after createContainer returned: the 201, then the install or
\* the start phase up to its first await.
CreateAfterContainer(q) ==
    LET a == Respond([q EXCEPT !.created = TRUE], 201) IN
    IF HasInstallScripts(q)
    THEN BeginStore(a, "setState", "INSTALLING")
    ELSE BeginStore(a, "setState", "STARTING")

\* POST /create after an awaited setState/setStateValue returned.
CreateAfterStore(q) ==
    LET c == ClearOp(q) IN
    CASE q.opState = "PULLING_IMAGE" -> [c EXCEPT !.pc = "pullImage"]
      [] q.opState = "CREATING_VOLUME" -> [c EXCEPT !.pc = "mkdir"]
      [] q.opState = "CREATING_CONTAINER" -> [c EXCEPT !.pc = "createContainer"]
      [] q.opState = "INSTALLING" -> [c EXCEPT !.pc = "download"]
      [] q.opState = "STARTING" -> [c EXCEPT !.pc = "start"]
      [] q.opState = "RUNNING" -> Finish(c)
      [] q.opState = "INSTALLATION_FAILED" -> Finish(c)
      [] q.opState = "FAILED" -> Finish(Respond(c, 500))

\* GET /:id/states/set/:state after setStateValue returned, and its catch.
RouteAfterStore(q) == Finish(Respond(ClearOp(q), 200))
RouteThrow(q, what) == Finish(Respond(ClearOp(Fault(q, what)), 500))

\* A bare call of setState, setStateValue or getState returns, or throws.
CallAfterStore(q) == Finish(q)
CallThrow(q, what) == Finish(Fault(q, what))

\* The catch of a lifecycle route: DELETE /:id answers 404 when the error's
\* statusCode is 404 (the runtime's "no such container"); everything else, in
\* every route, is answered 500.
LifeThrow(q, what) ==
    Finish(Respond(ClearOp(Fault(q, what)),
                   IF q.kind = "delete" /\ what = "NoSuchContainer" THEN 404 ELSE 500))

\* DELETE /:id after setStateValue(req.params.id, "DELETED") returned
DeleteAfterStore(q) == Finish(Respond(ClearOp(q), 200))

AfterStore(q) ==
    CASE q.kind = "create" -> CreateAfterStore(q)
      [] q.kind = "route" -> RouteAfterStore(q)
      [] q.kind = "delete" -> DeleteAfterStore(q)
      [] OTHER -> CallAfterStore(q)

Throw(q, what) ==
    CASE q.kind = "create" -> CreateThrow(q, what)
      [] q.kind = "route" -> RouteThrow(q, what)
      [] q.kind = "delete" -> LifeThrow(q, what)
      [] OTHER -> CallThrow(q, what)

InFlight(r) == req[r].pc \notin {"idle", "done"}

\* The handlers when request number accepted + 1 arrives as q: a handler that
\* has returned is gone.
Arrive(q) ==
    [r \in Slots |-> IF r = accepted + 1 THEN q
                     ELSE IF req[r].pc = "done" THEN NoRequest ELSE req[r]]
MayArrive == accepted < MaxRequests /\ (serial => \A r \in Slots : ~InFlight(r))

(***************************************************************************)
(* Actions of the deployment model                                         *)
(***************************************************************************)
Others == <<pathIn, pathOut, fsReq, fsOut, disk, archVars, subVars, dlVars>>

\* POST /create: the body check, then setState(Id, "PULLING_IMAGE") up to its await
ReceiveCreate ==
    /\ MayArrive
    /\ \E id \in Ids, n \in 0..MaxScripts, bad \in BOOLEAN, valid \in BOOLEAN :
        LET q == [NoRequest EXCEPT !.kind = "create", !.id = id,
                                   !.dl = [i \in 1..n |-> "pending"],
                                   !.badVars = bad] IN
        /\ req' = Arrive(IF valid THEN BeginStore(q, "setState", "PULLING_IMAGE")
                         ELSE Finish(Respond(q, 400)))
        /\ hist' = IF valid /\ serial THEN [id |-> id, seen |-> <<>>] ELSE hist
    /\ accepted' = accepted + 1
    /\ UNCHANGED <<statesFile, containers, volumes, serial, lastSet, Others>>

\* GET /:id/states/set/:state: setStateValue(id, state) up to its await
ReceiveSetRoute ==
    /\ MayArrive
    /\ \E id \in Ids, s \in RouteStates :
        req' = Arrive(BeginStore([NoRequest EXCEPT !.kind = "route", !.id = id, !.state = s],
                                 "setStateValue", s))
    /\ accepted' = accepted + 1
    /\ UNCHANGED <<statesFile, containers, volumes, serial, hist, lastSet, Others>>

\* A caller invokes setState(id, s), setStateValue(id, s) or getState(id).
ReceiveCall ==
    /\ MayArrive
    /\ \E op \in {"setState", "setStateValue", "getState"}, id \in Ids, s \in CallStates :
        /\ op = "getState" => s = "RUNNING"
        /\ req' = Arrive(BeginStore([NoRequest EXCEPT !.kind = op, !.id = id,
                                        !.state = IF op = "getState" THEN "" ELSE s],
                                    op, IF op = "getState" THEN "" ELSE s))
    /\ accepted' = accepted + 1
    /\ UNCHANGED <<statesFile, containers, volumes, serial, hist, lastSet, Others>>

\* ensureStatesFile, the file was absent: fs.writeFile(statedirectory, "[]") completes
EnsureStatesFileCreate(r) ==
    /\ req[r].pc = "store" /\ req[r].io = "create"
    /\ statesFile' = [exists |-> TRUE, data |-> <<>>, valid |-> TRUE]
    /\ req' = [req EXCEPT ![r].io = "read"]
    /\ hist' = Seen(<<>>)
    /\ lastSet' = <<>>
    /\ UNCHANGED <<containers, volumes, accepted, serial, Others>>

\* A bug ensureStatesFile could have: a document that does not parse is reset.
EnsureStatesFileValidate_Reset(r) ==
    /\ req[r].pc = "store" /\ req[r].io = "validate"
    /\ statesFile' = [statesFile EXCEPT !.data = IF statesFile.valid THEN @ ELSE <<>>,
                                        !.valid = TRUE]
    /\ req' = [req EXCEPT ![r].io = "read"]
    /\ UNCHANGED <<containers, volumes, accepted, serial, hist, lastSet, Others>>

\* ensureStatesFile, the file was there: readFile completes, and JSON.parse
\* returns or throws
EnsureStatesFileValidate(r) ==
    /\ req[r].pc = "store" /\ req[r].io = "validate"
    /\ req' = [req EXCEPT ![r] = IF statesFile.valid THEN [req[r] EXCEPT !.io = "read"]
                                 ELSE Throw(req[r], "parse")]
    /\ UNCHANGED <<statesFile, containers, volumes, accepted, serial, hist, lastSet, Others>>

\* setState: the awaited readFile completes; filter and push; writeFile is started
SetStateRead(r) ==
    /\ req[r].pc = "store" /\ req[r].io = "read" /\ req[r].op = "setState"
    /\ req' = [req EXCEPT ![r].io = "write",
                          ![r].buf = SetStateData(statesFile.data, req[r].id, req[r].opState)]
    /\ UNCHANGED <<statesFile, containers, volumes, accepted, serial, hist, lastSet, Others>>

\* setState: the awaited writeFile completes, and the caller goes on
SetStateWrite(r) ==
    /\ req[r].pc = "store" /\ req[r].io = "write" /\ req[r].op = "setState"
    /\ statesFile' = [statesFile EXCEPT !.data = req[r].buf, !.valid = TRUE]
    /\ req' = [req EXCEPT ![r] = AfterStore(req[r])]
    /\ hist' = Seen(req[r].buf)
    /\ lastSet' = <<req[r].id, req[r].opState>>
    /\ UNCHANGED <<containers, volumes, accepted, serial, Others>>

\* setStateValue: the awaited readFile completes; find; throw, or item.State =
\* state and writeFile is started
SetStateValueRead(r) ==
    /\ req[r].pc = "store" /\ req[r].io = "read" /\ req[r].op = "setStateValue"
    /\ req' = [req EXCEPT ![r] =
                 IF SetStateValueMissing(statesFile.data, req[r].id)
                 THEN Throw(req[r], "NotFound")
                 ELSE [req[r] EXCEPT !.io = "write",
                                     !.buf = SetStateValueData(statesFile.data, req[r].id,
                                                               req[r].opState)]]
    /\ UNCHANGED <<statesFile, containers, volumes, accepted, serial, hist, lastSet, Others>>

\* setStateValue: the awaited writeFile completes, and the caller goes on
SetStateValueWrite(r) ==
    /\ req[r].pc = "store" /\ req[r].io = "write" /\ req[r].op = "setStateValue"
    /\ statesFile' = [statesFile EXCEPT !.data = req[r].buf, !.valid = TRUE]
    /\ req' = [req EXCEPT ![r] = AfterStore(req[r])]
    /\ hist' = Seen(req[r].buf)
    /\ lastSet' = <<>>
    /\ UNCHANGED <<containers, volumes, accepted, serial, Others>>

\* getState: the awaited readFile completes; find; return
GetStateRead(r) ==
    /\ req[r].pc = "store" /\ req[r].io = "read" /\ req[r].op = "getState"
    /\ req' = [req EXCEPT ![r] =
                 AfterStore([req[r] EXCEPT !.result = getState(statesFile.data, req[r].id),
                                           !.sawSet = lastSet])]
    /\ UNCHANGED <<statesFile, containers, volumes, accepted, serial, hist, lastSet, Others>>

\* await pullImage(Image) settles; then setState(Id, "CREATING_VOLUME")
PullImage(r) ==
    /\ req[r].pc = "pullImage"
    /\ \E ok \in BOOLEAN :
        req' = [req EXCEPT ![r] = IF ok THEN BeginStore(req[r], "setState", "CREATING_VOLUME")
                                  ELSE Throw(req[r], "pullImage")]
    /\ UNCHANGED <<statesFile, containers, volumes, accepted, serial, hist, lastSet, Others>>

\* await fs.mkdir(volumePath, {recursive: true}) settles; the environment is
\* computed (JSON.parse of a string `variables` may throw); then
\* setState(Id, "CREATING_CONTAINER")
Mkdir(r) ==
    /\ req[r].pc = "mkdir"
    /\ \E ok \in BOOLEAN :
        /\ volumes' = IF ok THEN volumes \cup {req[r].id} ELSE volumes
        /\ req' = [req EXCEPT ![r] =
                     IF ~ok THEN Throw(req[r], "mkdir")
                     ELSE IF req[r].badVars THEN Throw(req[r], "variables")
                     ELSE BeginStore(req[r], "setState", "CREATING_CONTAINER")]
    /\ UNCHANGED <<statesFile, containers, accepted, serial, hist, lastSet, Others>>

\* await docker.createContainer(containerOptions) settles: the runtime refuses a
\* name that is taken, and may fail otherwise; on success the 201 is sent
CreateContainer(r) ==
    /\ req[r].pc = "createContainer"
    /\ \E ok \in BOOLEAN :
        LET done == ok /\ containers[req[r].id].status = "none" IN
        /\ containers' = IF done
                         THEN [containers EXCEPT ![req[r].id] = [status |-> "created", by |-> r]]
                         ELSE containers
        /\ req' = [req EXCEPT ![r] = IF done THEN CreateAfterContainer(req[r])
                                     ELSE Throw(req[r], "createContainer")]
    /\ UNCHANGED <<statesFile, volumes, accepted, serial, hist, lastSet, Others>>

\* downloadInstallScripts: one of the concurrent downloadFile calls settles; when
\* all have, Promise.all resolves and the count of failures decides
DownloadFile(r) ==
    /\ req[r].pc = "download"
    /\ \E i \in 1..Len(req[r].dl), ok \in BOOLEAN :
        /\ req[r].dl[i] = "pending"
        /\ LET dl == [req[r].dl EXCEPT ![i] = IF ok THEN "ok" ELSE "failed"]
               q == [req[r] EXCEPT !.dl = dl] IN
           req' = [req EXCEPT ![r] =
                     IF \E j \in 1..Len(dl) : dl[j] = "pending" THEN q
                     ELSE IF DownloadsFailed(dl) THEN Throw(q, "download")
                     ELSE [q EXCEPT !.pc = "replaceVariables"]]
    /\ UNCHANGED <<statesFile, containers, volumes, accepted, serial, hist, lastSet, Others>>

\* await replaceVariables(dir, variables) settles (it rejects when readdir or a
\* stat fails); then setState(Id, "STARTING")
ReplaceVariables(r) ==
    /\ req[r].pc = "replaceVariables"
    /\ \E ok \in BOOLEAN :
        req' = [req EXCEPT ![r] = IF ok THEN BeginStore(req[r], "setState", "STARTING")
                                  ELSE Throw(req[r], "replaceVariables")]
    /\ UNCHANGED <<statesFile, containers, volumes, accepted, serial, hist, lastSet, Others>>

\* await container.start() settles; then setStateValue(Id, "RUNNING")
Start(r) ==
    /\ req[r].pc = "start"
    /\ \E ok \in BOOLEAN :
        LET mine == containers[req[r].id].status # "none" /\ containers[req[r].id].by = r
            done == ok /\ mine IN
        /\ containers' = IF done THEN [containers EXCEPT ![req[r].id].status = "running"]
                         ELSE containers
        /\ req' = [req EXCEPT ![r] =
                     IF done THEN BeginStore([req[r] EXCEPT !.started = TRUE],
                                             "setStateValue", "RUNNING")
                     ELSE Throw([req[r] EXCEPT !.started = TRUE], "start")]
    /\ UNCHANGED <<statesFile, volumes, accepted, serial, hist, lastSet, Others>>

(***************************************************************************)
(* The routes that remove or replace a deployed instance's container       *)
(* (src/unnamed/part_001, lines 656-866; src/routes/Instance.js, lines     *)
(* 89-122) and the power route (src/unnamed/part_000).                     *)
(*                                                                         *)
(* The runtime refuses what the container's state does not allow: inspect, *)
(* stop, remove and start of a container that is not there (404), stop of  *)
(* one that is not running and start of one that is (304), remove without  *)
(* force of a running one and createContainer under a name that is taken   *)
(* (409).  Any call may fail for a reason of the runtime's own.            *)
(***************************************************************************)
PowerActions == {"start", "stop"}

\* what the runtime says when it refuses
Refusal(id) == IF containers[id].status = "none" THEN "NoSuchContainer" ELSE "runtime"

\* a request is accepted and its handler runs up to its first await
Accepted(q, pc) == Arrive([q EXCEPT !.pc = pc])

\* DELETE /:id of the deployment router: container.inspect() is awaited
ReceiveDelete ==
    /\ MayArrive
    /\ \E id \in Ids :
        req' = Accepted([NoRequest EXCEPT !.kind = "delete", !.id = id], "inspect")
    /\ accepted' = accepted + 1
    /\ UNCHANGED <<statesFile, containers, volumes, serial, hist, lastSet, Others>>

\* DELETE /:id of the instance router: container.inspect() is awaited
ReceiveInstanceDelete ==
    /\ MayArrive
    /\ \E id \in Ids :
        req' = Accepted([NoRequest EXCEPT !.kind = "instDelete", !.id = id], "inspect")
    /\ accepted' = accepted + 1
    /\ UNCHANGED <<statesFile, containers, volumes, serial, hist, lastSet, Others>>

\* POST /redeploy/:id: container.inspect() is awaited; the body is looked at later
ReceiveRedeploy ==
    /\ MayArrive
    /\ \E id \in Ids, body \in {"ok", "missing"} :
        req' = Accepted([NoRequest EXCEPT !.kind = "redeploy", !.id = id, !.body = body],
                        "inspect")
    /\ accepted' = accepted + 1
    /\ UNCHANGED <<statesFile, containers, volumes, serial, hist, lastSet, Others>>

\* POST /reinstall/:id: container.inspect() is awaited; the body is looked at later
ReceiveReinstall ==
    /\ MayArrive
    /\ \E id \in Ids, body \in {"ok", "missing"}, n \in 0..MaxScripts :
        req' = Accepted([NoRequest EXCEPT !.kind = "reinstall", !.id = id, !.body = body,
                                          !.dl = [i \in 1..n |-> "pending"]], "inspect")
    /\ accepted' = accepted + 1
    /\ UNCHANGED <<statesFile, containers, volumes, serial, hist, lastSet, Others>>

\* PUT /edit/:id: if (!VolumeId) return 400; then container.inspect() is awaited
ReceiveEdit ==
    /\ MayArrive
    /\ \E id \in Ids, body \in {"ok", "missing"} :
        LET q == [NoRequest EXCEPT !.kind = "edit", !.id = id, !.body = body] IN
        req' = IF body = "missing" THEN Accepted(Respond(q, 400), "done")
               ELSE Accepted(q, "inspect")
    /\ accepted' = accepted + 1
    /\ UNCHANGED <<statesFile, containers, volumes, serial, hist, lastSet, Others>>

\* POST /:id/:power: containerExists(container) is awaited
ReceivePower ==
    /\ MayArrive
    /\ \E id \in Ids, power \in PowerActions \cup {"bogus"} :
        req' = Accepted([NoRequest EXCEPT !.kind = "power", !.id = id, !.state = power],
                        "exists")
    /\ accepted' = accepted + 1
    /\ UNCHANGED <<statesFile, containers, volumes, serial, hist, lastSet, Others>>

LifeFrame == <<statesFile, accepted, serial, hist, lastSet, Others>>

\* await container.inspect() settles; if (info.State.Running) container.stop()
\* is awaited, else container.remove(); the instance router removes with force
Inspect(r) ==
    LET q == req[r] IN
    /\ q.pc = "inspect"
    /\ \E ok \in BOOLEAN :
        req' = [req EXCEPT ![r] =
                  IF ~ok \/ containers[q.id].status = "none" THEN LifeThrow(q, Refusal(q.id))
                  ELSE IF containers[q.id].status = "running" /\ q.kind # "instDelete"
                       THEN [q EXCEPT !.pc = "stop"]
                       ELSE [q EXCEPT !.pc = "remove"]]
    /\ UNCHANGED <<containers, volumes, LifeFrame>>

\* await container.stop() settles; container.remove() is awaited
Stop(r) ==
    LET q == req[r] IN
    /\ q.pc = "stop"
    /\ \E ok \in BOOLEAN :
        LET stopped == ok /\ containers[q.id].status = "running" IN
        /\ containers' = IF stopped THEN [containers EXCEPT ![q.id].status = "created"]
                          ELSE containers
        /\ req' = [req EXCEPT ![r] =
                     IF stopped THEN [q EXCEPT !.pc = "remove", !.stopped = TRUE]
                     ELSE LifeThrow(q, Refusal(q.id))]
    /\ UNCHANGED <<volumes, LifeFrame>>

\* redeploy and reinstall: if (!Image || !Id) throw new Error(...)
BodyChecked(q) == q.body = "ok"

\* What follows container.remove() up to the next await.
AfterRemove(q) ==
    CASE q.kind = "delete" -> BeginStore(q, "setStateValue", "DELETED")
      [] q.kind = "instDelete" -> [q EXCEPT !.pc = "rmVolume"]
      [] q.kind \in {"redeploy", "reinstall"} ->
            IF ~BodyChecked(q) THEN LifeThrow(q, "body")
            ELSE IF q.id \notin volumes THEN LifeThrow(q, "volume")
            ELSE [q EXCEPT !.pc = "recreate"]
      [] OTHER -> [q EXCEPT !.pc = "recreate"]

\* await container.remove() settles
Remove(r) ==
    LET q == req[r] IN
    /\ q.pc = "remove"
    /\ \E ok \in BOOLEAN :
        LET removed == /\ ok
                       /\ containers[q.id].status # "none"
                       /\ q.kind = "instDelete" \/ containers[q.id].status # "running" IN
        /\ containers' = IF removed THEN [containers EXCEPT ![q.id] = [status |-> "none", by |-> 0]]
                          ELSE containers
        /\ req' = [req EXCEPT ![r] =
                     IF removed THEN AfterRemove([q EXCEPT !.removed = TRUE])
                     ELSE LifeThrow(q, Refusal(q.id))]
    /\ UNCHANGED <<volumes, LifeFrame>>

\* the instance router: await fs.rm(volumeDir, {recursive, force}) settles; a
\* failure is logged; res.json({success: true})
RmVolume(r) ==
    LET q == req[r] IN
    /\ q.pc = "rmVolume"
    /\ \E ok \in BOOLEAN :
        /\ volumes' = IF ok THEN volumes \ {q.id} ELSE volumes
        /\ req' = [req EXCEPT ![r] = Finish(Respond([q EXCEPT !.rm = ok], 200))]
    /\ UNCHANGED <<containers, LifeFrame>>

\* await docker.createContainer(containerOptions) settles in redeploy, reinstall
\* and edit; reinstall with install scripts goes on to download them
Recreate(r) ==
    LET q == req[r] IN
    /\ q.pc = "recreate"
    /\ \E ok \in BOOLEAN :
        LET done == ok /\ containers[q.id].status = "none" IN
        /\ containers' = IF done
                          THEN [containers EXCEPT ![q.id] = [status |-> "created", by |-> r]]
                          ELSE containers
        /\ req' = [req EXCEPT ![r] =
                     IF ~done THEN LifeThrow(q, "createContainer")
                     ELSE IF q.kind = "reinstall" /\ HasInstallScripts(q)
                          THEN [q EXCEPT !.created = TRUE, !.pc = "reDownload"]
                          ELSE [q EXCEPT !.created = TRUE, !.pc = "restart"]]
    /\ UNCHANGED <<volumes, LifeFrame>>

\* reinstall: one of downloadInstallScripts' downloads settles
ReinstallDownload(r) ==
    LET q == req[r] IN
    /\ q.pc = "reDownload"
    /\ \E i \in 1..Len(q.dl), ok \in BOOLEAN :
        /\ q.dl[i] = "pending"
        /\ LET dl == [q.dl EXCEPT ![i] = IF ok THEN "ok" ELSE "failed"]
               q2 == [q EXCEPT !.dl = dl] IN
           req' = [req EXCEPT ![r] =
                     IF \E j \in 1..Len(dl) : dl[j] = "pending" THEN q2
                     ELSE IF DownloadsFailed(dl) THEN LifeThrow(q2, "download")
                     ELSE [q2 EXCEPT !.pc = "reReplace"]]
    /\ UNCHANGED <<containers, volumes, LifeFrame>>

\* reinstall: await replaceVariables(dir, variables) settles
ReinstallReplace(r) ==
    LET q == req[r] IN
    /\ q.pc = "reReplace"
    /\ \E ok \in BOOLEAN :
        req' = [req EXCEPT ![r] = IF ok THEN [q EXCEPT !.pc = "restart"]
                                  ELSE LifeThrow(q, "replaceVariables")]
    /\ UNCHANGED <<containers, volumes, LifeFrame>>

\* await newContainer.start() settles in redeploy, reinstall and edit; the 200
Restart(r) ==
    LET q == req[r] IN
    /\ q.pc = "restart"
    /\ \E ok \in BOOLEAN :
        LET done == /\ ok
                    /\ containers[q.id].status = "created"
                    /\ containers[q.id].by = r IN
        /\ containers' = IF done THEN [containers EXCEPT ![q.id].status = "running"]
                          ELSE containers
        /\ req' = [req EXCEPT ![r] =
                     IF done THEN Finish(Respond([q EXCEPT !.started = TRUE], 200))
                     ELSE LifeThrow(q, "start")]
    /\ UNCHANGED <<volumes, LifeFrame>>

\* what a power action does to a container in the state it needs
Powered(power) == IF power = "start" THEN "running" ELSE "created"
Powerable(id, power) ==
    containers[id].status = (IF power = "start" THEN "created" ELSE "running")

\* containerExists settles: false answers 404; an unknown action answers 400;
\* else Promise.race([container.<power>(), timeout(OPERATION_TIMEOUT, ...)])
PowerExists(r) ==
    LET q == req[r] IN
    /\ q.pc = "exists"
    /\ \E ok \in BOOLEAN :
        req' = [req EXCEPT ![r] =
                  IF ~ok \/ containers[q.id].status = "none" THEN Finish(Respond(q, 404))
                  ELSE IF q.state \notin PowerActions THEN Finish(Respond(q, 400))
                  ELSE [q EXCEPT !.pc = "race"]]
    /\ UNCHANGED <<containers, volumes, LifeFrame>>

\* the action settles before the timer: the 200, or the catch (a 304 of the
\* runtime answers 400, any other error 500)
PowerSettle(r) ==
    LET q == req[r] IN
    /\ q.pc = "race"
    /\ \E ok \in BOOLEAN :
        LET done == ok /\ Powerable(q.id, q.state) IN
        /\ containers' = IF done THEN [containers EXCEPT ![q.id].status = Powered(q.state)]
                          ELSE containers
        /\ req' = [req EXCEPT ![r] =
                     IF done THEN Finish(Respond([q EXCEPT !.result = "completed"], 200))
                     ELSE IF ok /\ containers[q.id].status # "none"
                          THEN Finish(Respond(Fault(q, "304"), 400))
                          ELSE Finish(Respond(Fault(q, Refusal(q.id)), 500))]
    /\ UNCHANGED <<volumes, LifeFrame>>

\* timeout = promisify(setTimeout): after OPERATION_TIMEOUT the timer's promise
\* is fulfilled with 'Operation timed out', Promise.race is fulfilled with it,
\* and the handler goes on to the 200
TimerSettles(q) == Finish(Respond([q EXCEPT !.result = "timed out"], 200))

\* the timer settles before the action
PowerTimeout(r) ==
    /\ req[r].pc = "race"
    /\ req' = [req EXCEPT ![r] = TimerSettles(req[r])]
    /\ UNCHANGED <<containers, volumes, LifeFrame>>

InitOthers ==
    /\ pathIn = <<>>
    /\ pathOut = <<>>
    /\ fsReq = <<>>
    /\ fsOut = <<>>
    /\ disk = <<>>

\* The documents a store with one record per id can hold.
Documents ==
    {<<>>}
    \cup {<<Entry(id, s)>> : id \in Ids, s \in CallStates}
    \cup {d \in [1..2 -> [Id : Ids, State : CallStates]] : d[1].Id # d[2].Id}

\* No archive request, no replaceVariables call and no download in the run.
InitElsewhere ==
    /\ archives = <<>>
    /\ volume = <<>>
    /\ clock = 0
    /\ areq = <<>>
    /\ alog = <<>>
    /\ subFs = <<>>
    /\ subRun = <<>>
    /\ dlFs = <<>>
    /\ dlRun = <<>>

InitHandlers ==
    /\ containers = [id \in Ids |-> [status |-> "none", by |-> 0]]
    /\ volumes = {}
    /\ req = [r \in Slots |-> NoRequest]
    /\ accepted = 0
    /\ hist = [id |-> "", seen |-> <<>>]
    /\ lastSet = <<>>

InitRest == InitHandlers /\ InitElsewhere

InitDeploy ==
    /\ statesFile \in {[exists |-> FALSE, data |-> <<>>, valid |-> TRUE], [exists |-> TRUE, data |-> <<>>, valid |-> TRUE]}
    /\ InitRest

\* The store before the calls: no document yet, or one left by earlier calls.
InitStore ==
    /\ statesFile \in {[exists |-> FALSE, data |-> <<>>, valid |-> TRUE]}
                       \cup {[exists |-> TRUE, data |-> d, valid |-> TRUE] : d \in Documents}
    /\ InitRest
    /\ InitOthers
    /\ serial = FALSE

Init == InitDeploy /\ InitOthers /\ serial = FALSE
InitSeq == InitDeploy /\ InitOthers /\ serial = TRUE

Next ==
    \/ ReceiveCreate
    \/ ReceiveSetRoute
    \/ \E r \in Slots : EnsureStatesFileCreate(r)
    \/ \E r \in Slots : EnsureStatesFileValidate(r)
    \/ \E r \in Slots : SetStateRead(r)
    \/ \E r \in Slots : SetStateWrite(r)
    \/ \E r \in Slots : SetStateValueRead(r)
    \/ \E r \in Slots : SetStateValueWrite(r)
    \/ \E r \in Slots : PullImage(r)
    \/ \E r \in Slots : Mkdir(r)
    \/ \E r \in Slots : CreateContainer(r)
    \/ \E r \in Slots : DownloadFile(r)
    \/ \E r \in Slots : ReplaceVariables(r)
    \/ \E r \in Slots : Start(r)

NextStore ==
    \/ ReceiveCall
    \/ \E r \in Slots : EnsureStatesFileCreate(r)
    \/ \E r \in Slots : EnsureStatesFileValidate(r)
    \/ \E r \in Slots : SetStateRead(r)
    \/ \E r \in Slots : SetStateWrite(r)
    \/ \E r \in Slots : SetStateValueRead(r)
    \/ \E r \in Slots : SetStateValueWrite(r)
    \/ \E r \in Slots : GetStateRead(r)

\* What earlier requests can have left of an instance: nothing; a container
\* that was created and not started, or is running, with its volume and record;
\* a record DELETED and the volume (the deployment router's delete); a record
\* and nothing else (the instance router's delete).
Left ==
    {[status |-> "none", volume |-> FALSE, state |-> "null"],
     [status |-> "created", volume |-> TRUE, state |-> "INSTALLATION_FAILED"],
     [status |-> "running", volume |-> TRUE, state |-> "RUNNING"],
     [status |-> "none", volume |-> TRUE, state |-> "DELETED"],
     [status |-> "none", volume |-> FALSE, state |-> "RUNNING"]}

InitLife ==
    /\ \E a \in Left :
        /\ containers = [id \in Ids |-> IF id = "app1" THEN [status |-> a.status, by |-> 0]
                                        ELSE [status |-> "none", by |-> 0]]
        /\ volumes = IF a.volume THEN {"app1"} ELSE {}
        /\ statesFile = [exists |-> TRUE, valid |-> TRUE,
                         data |-> IF a.state = "null" THEN <<>>
                                  ELSE <<Entry("app1", a.state)>>]
    /\ req = [r \in Slots |-> NoRequest]
    /\ accepted = 0
    /\ hist = [id |-> "", seen |-> <<>>]
    /\ lastSet = <<>>
    /\ InitElsewhere
    /\ InitOthers
    /\ serial = FALSE

NextLife ==
    \/ ReceiveDelete
    \/ ReceiveInstanceDelete
    \/ ReceiveRedeploy
    \/ ReceiveReinstall
    \/ ReceiveEdit
    \/ ReceivePower
    \/ \E r \in Slots : Inspect(r)
    \/ \E r \in Slots : Stop(r)
    \/ \E r \in Slots : Remove(r)
    \/ \E r \in Slots : RmVolume(r)
    \/ \E r \in Slots : Recreate(r)
    \/ \E r \in Slots : ReinstallDownload(r)
    \/ \E r \in Slots : ReinstallReplace(r)
    \/ \E r \in Slots : Restart(r)
    \/ \E r \in Slots : PowerExists(r)
    \/ \E r \in Slots : PowerSettle(r)
    \/ \E r \in Slots : PowerTimeout(r)
    \/ \E r \in Slots : EnsureStatesFileValidate(r)
    \/ \E r \in Slots : SetStateValueRead(r)
    \/ \E r \in Slots : SetStateValueWrite(r)

\* Requests to the routes that work on a deployed instance interleave at
\* their awaits.
SpecLife == InitLife /\ [][NextLife]_vars

\* The store before the calls: no document, or one that JSON.parse refuses.
InitCorrupt ==
    /\ statesFile \in {[exists |-> FALSE, data |-> <<>>, valid |-> TRUE],
                        [exists |-> TRUE, data |-> <<>>, valid |-> FALSE]}
    /\ InitRest
    /\ InitOthers
    /\ serial = FALSE

\* Callers of the store meet a document that is absent or does not parse.
SpecCorrupt == InitCorrupt /\ [][NextStore]_vars

NextRace ==
    \/ ReceiveCreate
    \/ ReceiveDelete
    \/ \E r \in Slots : EnsureStatesFileCreate(r)
    \/ \E r \in Slots : EnsureStatesFileValidate(r)
    \/ \E r \in Slots : SetStateRead(r)
    \/ \E r \in Slots : SetStateWrite(r)
    \/ \E r \in Slots : SetStateValueRead(r)
    \/ \E r \in Slots : SetStateValueWrite(r)
    \/ \E r \in Slots : PullImage(r)
    \/ \E r \in Slots : Mkdir(r)
    \/ \E r \in Slots : CreateContainer(r)
    \/ \E r \in Slots : DownloadFile(r)
    \/ \E r \in Slots : ReplaceVariables(r)
    \/ \E r \in Slots : Start(r)
    \/ \E r \in Slots : Inspect(r)
    \/ \E r \in Slots : Stop(r)
    \/ \E r \in Slots : Remove(r)

\* Deployments and deletes interleave at their awaits.
SpecRace == Init /\ [][NextRace]_vars

\* Callers of the store interleave at its awaits.
SpecStore == InitStore /\ [][NextStore]_vars
\* Requests interleave at their awaits.
Spec == Init /\ [][Next]_vars
\* Requests are served one at a time.
SpecSeq == InitSeq /\ [][Next]_vars

(***************************************************************************)
(* Paths.  A path is a sequence of characters; the separator is "/"        *)
(* (path.sep on the POSIX hosts the daemon runs on).                       *)
(***************************************************************************)
PathChars == {"a", "b", ".", "/"}
Strings(n) == UNION {[1..k -> PathChars] : k \in 0..n}

\* path.join(__dirname, '../archives') and path.join(__dirname, '../volumes'):
\* two sibling directories.
ARCHIVES_DIR == <<"/", "d", "/", "a">>
VOLUMES_DIR == <<"/", "d", "/", "b">>

\* s.split("/")
RECURSIVE SplitFrom(_, _, _)
SplitFrom(s, i, cur) ==
    IF i > Len(s) THEN <<cur>>
    ELSE IF s[i] = "/" THEN <<cur>> \o SplitFrom(s, i + 1, <<>>)
    ELSE SplitFrom(s, i + 1, Append(cur, s[i]))
Split(s) == SplitFrom(s, 1, <<>>)

\* Node's normalisation of an absolute path's segments: empty segments and "."
\* are dropped, ".." removes the segment before it and is dropped at the root.
RECURSIVE NormalizeFrom(_, _, _)
NormalizeFrom(segs, i, out) ==
    IF i > Len(segs) THEN out
    ELSE IF segs[i] = <<>> \/ segs[i] = <<".">> THEN NormalizeFrom(segs, i + 1, out)
    ELSE IF segs[i] = <<".", ".">>
         THEN NormalizeFrom(segs, i + 1,
                            IF out = <<>> THEN out ELSE SubSeq(out, 1, Len(out) - 1))
    ELSE NormalizeFrom(segs, i + 1, Append(out, segs[i]))
Normalize(segs) == NormalizeFrom(segs, 1, <<>>)

RECURSIVE JoinFrom(_, _)
JoinFrom(segs, i) ==
    IF i > Len(segs) THEN <<>> ELSE <<"/">> \o segs[i] \o JoinFrom(segs, i + 1)
AbsPath(segs) == IF segs = <<>> THEN <<"/">> ELSE JoinFrom(segs, 1)

\* The segments of path.resolve(base, target) for an absolute base: an absolute
\* target replaces the base, a relative one is appended to it.
ResolveSegments(base, target) ==
    IF target # <<>> /\ target[1] = "/"
    THEN Normalize(Split(target))
    ELSE Normalize(Split(base) \o Split(target))

\* path.resolve(base, target)
pathResolve(base, target) == AbsPath(ResolveSegments(base, target))

\* path.join(base, target): the target is appended even when it is absolute
pathJoin(base, target) == AbsPath(Normalize(Split(base) \o Split(target)))

\* fullPath.startsWith(prefix)
StartsWith(s, prefix) ==
    Len(prefix) <= Len(s) /\ \A i \in 1..Len(prefix) : s[i] = prefix[i]

OutsideError == "Attempting to access outside of the allowed directory"

\* A bug safePath could have: the prefix is matched without the separator.
safePath_NoSeparator(base, target) ==
    LET resolvedBase == pathResolve(<<"/">>, base)
        fullPath == pathResolve(resolvedBase, target) IN
    IF ~StartsWith(fullPath, resolvedBase) /\ fullPath # resolvedBase
    THEN [ok |-> FALSE, path |-> <<>>, error |-> OutsideError]
    ELSE [ok |-> TRUE, path |-> fullPath, error |-> ""]

\* safePath(base, target): the resolved path, or the error it throws
safePath(base, target) ==
    LET resolvedBase == pathResolve(<<"/">>, base)
        fullPath == pathResolve(resolvedBase, target) IN
    IF ~StartsWith(fullPath, resolvedBase \o <<"/">>) /\ fullPath # resolvedBase
    THEN [ok |-> FALSE, path |-> <<>>, error |-> OutsideError]
    ELSE [ok |-> TRUE, path |-> fullPath, error |-> ""]

\* The characters of PathChars that /^[a-zA-Z0-9_\-\.]+$/ admits.
NameChars == {"a", "b", "."}

\* name.includes('..')
IncludesDotDot(name) ==
    \E i \in 1..(Len(name) - 1) : name[i] = "." /\ name[i + 1] = "."

\* A bug isValidArchiveName could have: only the character class is tested.
isValidArchiveName_NoDotDot(name) ==
    Len(name) > 0 /\ \A i \in 1..Len(name) : name[i] \in NameChars

\* isValidArchiveName(name)
isValidArchiveName(name) ==
    /\ Len(name) > 0 /\ \A i \in 1..Len(name) : name[i] \in NameChars
    /\ ~IncludesDotDot(name)

\* safePath and isValidArchiveName applied to the drawn arguments.
SafePathCall ==
    /\ pathIn # <<>> /\ pathOut.safe = <<>>
    /\ pathOut' = [pathOut EXCEPT !.safe = <<safePath(pathIn.base, pathIn.target)>>]
    /\ UNCHANGED <<deployVars, archVars, subVars, dlVars, pathIn, fsVars>>

IsValidArchiveNameCall ==
    /\ pathIn # <<>> /\ pathOut.valid = <<>>
    /\ pathOut' = [pathOut EXCEPT !.valid = <<isValidArchiveName(pathIn.target)>>]
    /\ UNCHANGED <<deployVars, archVars, subVars, dlVars, pathIn, fsVars>>

InitIdle ==
    /\ statesFile = [exists |-> FALSE, data |-> <<>>, valid |-> TRUE]
    /\ InitRest
    /\ serial = FALSE

InitPath ==
    /\ InitIdle
    /\ pathIn \in [base : {ARCHIVES_DIR, VOLUMES_DIR}, target : Strings(MaxPathLen)]
    /\ pathOut = [safe |-> <<>>, valid |-> <<>>]
    /\ fsReq = <<>>
    /\ fsOut = <<>>
    /\ disk = <<>>

NextPath == SafePathCall \/ IsValidArchiveNameCall

\* safePath and isValidArchiveName on every base and every target of the bounds.
SpecPath == InitPath /\ [][NextPath]_vars

(***************************************************************************)
(* The filesystem-facing routes, from the request to the first access to   *)
(* the disk under a path made from the caller's id.                        *)
(***************************************************************************)
Answer(code) == [status |-> code, touched |-> <<>>, root |-> <<>>]
Touch(path, root) == [status |-> 0, touched |-> path, root |-> root]

\* GET /:id/archives: validator, safePath, then fsPromises.access(archivePath)
ArchivesList ==
    /\ fsReq # <<>> /\ fsReq.route = "list" /\ fsOut = <<>>
    /\ fsOut' =
         IF fsReq.id = <<>> \/ ~isValidArchiveName(fsReq.id) THEN Answer(400)
         ELSE IF ~safePath(ARCHIVES_DIR, fsReq.id).ok THEN Answer(403)
         ELSE Touch(safePath(ARCHIVES_DIR, fsReq.id).path, ARCHIVES_DIR)
    /\ UNCHANGED <<deployVars, archVars, subVars, dlVars, pathVars, fsReq, disk>>

\* POST /:id/archives/:volumeId/create: the validator on volumeId only, safePath
\* on both, then fsPromises.mkdir(archivePath, {recursive: true})
ArchiveCreate ==
    /\ fsReq # <<>> /\ fsReq.route = "archive" /\ fsOut = <<>>
    /\ fsOut' =
         IF fsReq.volumeId = <<>> \/ ~isValidArchiveName(fsReq.volumeId) THEN Answer(400)
         ELSE IF ~safePath(VOLUMES_DIR, fsReq.volumeId).ok THEN Answer(403)
         ELSE IF ~safePath(ARCHIVES_DIR, fsReq.id).ok THEN Answer(403)
         ELSE Touch(safePath(ARCHIVES_DIR, fsReq.id).path, ARCHIVES_DIR)
    /\ UNCHANGED <<deployVars, archVars, subVars, dlVars, pathVars, fsReq, disk>>

\* POST /create: `!Id` is the only test; path.join(__dirname, "../volumes", Id),
\* then fs.mkdir(volumePath, {recursive: true})
CreateVolumeDir ==
    /\ fsReq # <<>> /\ fsReq.route = "create" /\ fsOut = <<>>
    /\ fsOut' = IF fsReq.id = <<>> THEN Answer(400)
                ELSE Touch(pathJoin(VOLUMES_DIR, fsReq.id), VOLUMES_DIR)
    /\ UNCHANGED <<deployVars, archVars, subVars, dlVars, pathVars, fsReq, disk>>

\* GET /:id/disk/usage: `!id` is the only test; path.join(__dirname,
\* '../volumes', id), then fs.access(dirPath)
DiskUsage ==
    /\ fsReq # <<>> /\ fsReq.route = "usage" /\ fsOut = <<>>
    /\ fsOut' = IF fsReq.id = <<>> THEN Answer(400)
                ELSE Touch(pathJoin(VOLUMES_DIR, fsReq.id), VOLUMES_DIR)
    /\ UNCHANGED <<deployVars, archVars, subVars, dlVars, pathVars, fsReq, disk>>

InitFs ==
    /\ InitIdle
    /\ pathIn = <<>>
    /\ pathOut = <<>>
    \* A route segment (req.params) is never empty; the Id of a body may be.
    /\ fsReq \in {q \in [route : {"list", "archive", "create", "usage"},
                          id : Strings(MaxIdLen),
                          volumeId : {<<"b">>, <<".", ".">>}] :
                      q.route = "create" \/ q.id # <<>>}
    /\ fsOut = <<>>
    /\ disk = <<>>

NextFs == ArchivesList \/ ArchiveCreate \/ CreateVolumeDir \/ DiskUsage

\* One request to one of the filesystem-facing routes.
SpecFs == InitFs /\ [][NextFs]_vars

(***************************************************************************)
(* The rollback route on the disk.  disk holds the directories and the     *)
(* files under the volume root, each by its path; the volume directory of  *)
(* an instance is the directory of the instance's name in VOLUMES_DIR.     *)
(***************************************************************************)
\* the instances that may own a volume directory
InstanceNames == {<<"a">>, <<"b">>}

\* the one file every volume directory and every archive holds
DataFile == <<"f">>

\* path.join(dir, name) for a name of one segment
Child(dir, name) == dir \o <<"/">> \o name

\* p is below the directory dir
Below(dir, p) == StartsWith(p, dir \o <<"/">>)

\* the directory holding instance n's volume, and everything on disk in it
VolumeDirOf(n) == Child(VOLUMES_DIR, n)
TreeOf(d, n) ==
    [dirs |-> {p \in d.dirs : p = VolumeDirOf(n) \/ Below(VolumeDirOf(n), p)},
     files |-> {p \in d.files : p = VolumeDirOf(n) \/ Below(VolumeDirOf(n), p)}]

\* fsPromises.readdir(dir): the paths of the entries directly in dir
Readdir(d, dir) ==
    {p \in d.dirs \cup d.files :
        /\ Below(dir, p)
        /\ \A i \in (Len(dir) + 2)..Len(p) : p[i] # "/"}

\* fsPromises.rm(p, {recursive: true, force: true}) for every p of paths
RmAll(d, paths) ==
    LET gone(x) == \E p \in paths : x = p \/ Below(p, x) IN
    [dirs |-> {x \in d.dirs : ~gone(x)}, files |-> {x \in d.files : ~gone(x)}]

\* fsPromises.mkdir(dir, {recursive: true}): dir and, of the directories above
\* it, those from the volume root down
Mkdirp(d, dir) ==
    [d EXCEPT !.dirs = @ \cup {SubSeq(dir, 1, k) : k \in {j \in Len(VOLUMES_DIR)..Len(dir) :
                                                      j = Len(dir) \/ dir[j + 1] = "/"}}]

\* unzipper.Extract({path: dir}) fed with the archive: its file is written in dir
Extract(d, dir) == [Mkdirp(d, dir) EXCEPT !.files = @ \cup {Child(dir, DataFile)}]

RNoStep == [pc |-> "done", status |-> 0, path |-> <<>>, files |-> {}]
RAnswer(code) == [RNoStep EXCEPT !.status = code]
RAt(pc) == fsReq # <<>> /\ fsReq.route = "rollback" /\ fsOut # <<>> /\ fsOut.pc = pc

\* The three validators, then safePath on the volume and on the archive: the
\* handler up to its first await.
RollbackPaths ==
    /\ fsReq # <<>> /\ fsReq.route = "rollback" /\ fsOut = <<>>
    /\ LET volumePath == safePath(VOLUMES_DIR, fsReq.volumeId)
           archivePath == safePath(ARCHIVES_DIR, Child(fsReq.id, fsReq.archiveName)) IN
       fsOut' = IF \/ ~isValidArchiveName(fsReq.id)
                   \/ ~isValidArchiveName(fsReq.volumeId)
                   \/ ~isValidArchiveName(fsReq.archiveName) THEN RAnswer(400)
                ELSE IF ~volumePath.ok \/ ~archivePath.ok THEN RAnswer(403)
                ELSE [RNoStep EXCEPT !.pc = "access", !.path = volumePath.path]
    /\ UNCHANGED <<deployVars, archVars, subVars, dlVars, pathVars, fsReq, disk>>

\* await fsPromises.access(archivePath, F_OK); the archive directory is not
\* under the volume root, and the archive is there or is not
RollbackVerify ==
    /\ RAt("access")
    /\ \E found \in BOOLEAN :
        fsOut' = IF found THEN [fsOut EXCEPT !.pc = "readdir"] ELSE RAnswer(404)
    /\ UNCHANGED <<deployVars, archVars, subVars, dlVars, pathVars, fsReq, disk>>

\* await fsPromises.readdir(volumePath): ENOENT when the directory is missing
RollbackList ==
    /\ RAt("readdir")
    /\ fsOut' = IF fsOut.path \in disk.dirs
                THEN [fsOut EXCEPT !.pc = "rm", !.files = Readdir(disk, fsOut.path)]
                ELSE [fsOut EXCEPT !.pc = "mkdir"]
    /\ UNCHANGED <<deployVars, archVars, subVars, dlVars, pathVars, fsReq, disk>>

\* await Promise.all(files.map(file => fsPromises.rm(path.join(volumePath, file), ...)))
RollbackClear ==
    /\ RAt("rm")
    /\ disk' = RmAll(disk, fsOut.files)
    /\ fsOut' = [fsOut EXCEPT !.pc = "extract"]
    /\ UNCHANGED <<deployVars, archVars, subVars, dlVars, pathVars, fsReq>>

\* await fsPromises.mkdir(volumePath, {recursive: true})
RollbackMake ==
    /\ RAt("mkdir")
    /\ disk' = Mkdirp(disk, fsOut.path)
    /\ fsOut' = [fsOut EXCEPT !.pc = "extract"]
    /\ UNCHANGED <<deployVars, archVars, subVars, dlVars, pathVars, fsReq>>

\* zipStream.pipe(extractStream) until 'close', then res.json(...)
RollbackUnzip ==
    /\ RAt("extract")
    /\ disk' = Extract(disk, fsOut.path)
    /\ fsOut' = [fsOut EXCEPT !.pc = "done", !.status = 200]
    /\ UNCHANGED <<deployVars, archVars, subVars, dlVars, pathVars, fsReq>>

\* the volume root after POST /create made the volume directories of names
DiskOf(names) ==
    [dirs |-> IF names = {} THEN {} ELSE {VOLUMES_DIR} \cup {VolumeDirOf(n) : n \in names},
     files |-> {Child(VolumeDirOf(n), DataFile) : n \in names}]

InitDisk ==
    /\ InitIdle
    /\ pathIn = <<>>
    /\ pathOut = <<>>
    \* A route segment (req.params) is never empty.
    /\ fsReq \in [route : {"rollback"},
                  id : {<<"a">>, <<".", ".">>},
                  volumeId : Strings(MaxIdLen) \ {<<>>},
                  archiveName : {<<"a">>, <<".", ".">>}]
    /\ fsOut = <<>>
    /\ disk \in {DiskOf(names) : names \in SUBSET InstanceNames}

NextDisk ==
    \/ RollbackPaths \/ RollbackVerify \/ RollbackList
    \/ RollbackClear \/ RollbackMake \/ RollbackUnzip

\* One rollback request against a volume root holding some instances' volumes.
SpecDisk == InitDisk /\ [][NextDisk]_vars

(***************************************************************************)
(* Claims about the deployment state machine and the state store           *)
(***************************************************************************)
IsPrefix(a, b) == Len(a) <= Len(b) /\ \A i \in 1..Len(a) : a[i] = b[i]

NoInstallSequence ==
    <<"PULLING_IMAGE", "CREATING_VOLUME", "CREATING_CONTAINER", "STARTING", "RUNNING">>

\* A POST /create that passed the body check, has no install scripts, and none
\* of whose calls has failed.
CleanCreate(r) ==
    /\ req[r].kind = "create" /\ req[r].sent # 400
    /\ Len(req[r].dl) = 0 /\ req[r].fault = "none"

\* C1: served alone, a POST /create without install scripts whose calls all
\* succeed makes the store hold, for its Id, PULLING_IMAGE, CREATING_VOLUME,
\* CREATING_CONTAINER, STARTING, RUNNING in that order: what a poller has seen
\* is a prefix of that sequence while the handler runs and the whole of it when
\* the handler has returned, so INSTALLING is never stored.
C1_NoInstallSequence ==
    \A r \in Slots :
        CleanCreate(r) =>
            /\ hist.id = req[r].id
            /\ IsPrefix(hist.seen, NoInstallSequence)
            /\ req[r].pc = "done" => hist.seen = NoInstallSequence

C1_Witness ==
    \E r \in Slots :
        /\ CleanCreate(r) /\ req[r].pc = "done" /\ req[r].sent = 201
        /\ hist.seen = NoInstallSequence

\* C2: served alone, a POST /create with install scripts of which at least one
\* download failed ends with INSTALLATION_FAILED stored for its Id, with its
\* container created in the runtime, and without container.start() invoked.
C2_InstallFailureLeavesContainerCreated ==
    \A r \in Slots :
        (/\ req[r].kind = "create" /\ req[r].pc = "done"
         /\ \E i \in 1..Len(req[r].dl) : req[r].dl[i] = "failed")
        => /\ getState(statesFile.data, req[r].id) = "INSTALLATION_FAILED"
           /\ containers[req[r].id] = [status |-> "created", by |-> r]
           /\ req[r].created /\ ~req[r].started

C2_Witness ==
    \E r \in Slots :
        /\ req[r].kind = "create" /\ req[r].pc = "done" /\ Len(req[r].dl) = 2
        /\ req[r].dl[1] = "ok" /\ req[r].dl[2] = "failed"
        /\ getState(statesFile.data, req[r].id) = "INSTALLATION_FAILED"
        /\ containers[req[r].id].status = "created"

\* C3: served alone, a POST /create whose image pull, volume-directory creation
\* or container creation threw has created no container, ends with FAILED
\* stored for its Id, and was answered 500 and nothing else.
C3_EarlyFailure ==
    \A r \in Slots :
        (/\ req[r].kind = "create" /\ req[r].pc = "done"
         /\ req[r].fault \in {"pullImage", "mkdir", "createContainer"})
        => /\ ~req[r].created
           /\ containers[req[r].id].by # r
           /\ getState(statesFile.data, req[r].id) = "FAILED"
           /\ req[r].sent = 500 /\ req[r].attempts = 1

C3_Witness ==
    \E r \in Slots :
        /\ req[r].kind = "create" /\ req[r].pc = "done"
        /\ req[r].fault = "createContainer" /\ req[r].sent = 500
        /\ getState(statesFile.data, req[r].id) = "FAILED"
        /\ containers[req[r].id].status = "none"

\* C4: while no other write of the document has followed a completed
\* setState(id, s), the document holds exactly one record for id and getState(id)
\* is s; and a getState(id) call that read the document then returned s.
C4_SetStateThenGetState ==
    /\ lastSet # <<>> =>
          /\ getState(statesFile.data, lastSet[1]) = lastSet[2]
          /\ Cardinality(RecordsFor(statesFile.data, lastSet[1])) = 1
    /\ \A r \in Slots :
          (/\ req[r].kind = "getState" /\ req[r].pc = "done"
           /\ req[r].sawSet # <<>> /\ req[r].sawSet[1] = req[r].id)
          => req[r].result = req[r].sawSet[2]

C4_Witness ==
    \E r \in Slots :
        /\ req[r].kind = "getState" /\ req[r].pc = "done"
        /\ req[r].sawSet = <<req[r].id, "FAILED">> /\ req[r].result = "FAILED"
        /\ Len(statesFile.data) = 2

\* C5: served alone, every step of a setStateValue(id, s) call made while the
\* document holds no record for id leaves the records as they are, and the call
\* ends with the not-found error (the route answers 500), never with success.
C5_SetStateValueMissing ==
    [][\A r \in Slots :
          (/\ req[r].kind = "route" /\ req[r].pc = "store" /\ req'[r] # req[r]
           /\ FindEntry(statesFile.data, req[r].id) = 0)
          => /\ statesFile'.data = statesFile.data
             /\ req'[r].pc = "done" =>
                   /\ req'[r].fault = "NotFound"
                   /\ req'[r].sent = 500]_vars

C5_Witness ==
    \E r \in Slots :
        /\ req[r].kind = "route" /\ req[r].pc = "done" /\ req[r].fault = "NotFound"
        /\ req[r].sent = 500
        /\ Len(statesFile.data) = 1 /\ FindEntry(statesFile.data, req[r].id) = 0

\* C6: under every interleaving of setState and setStateValue calls at their
\* awaits, the document never holds two records with the same id.
C6_OneRecordPerId ==
    \A id \in Ids : Cardinality(RecordsFor(statesFile.data, id)) <= 1

\* Two calls for one id overlap: one has returned after the other one read.
C6_Witness ==
    \E r \in Slots, t \in Slots :
        /\ req[r].kind = "setState" /\ req[r].io = "write"
        /\ req[t].kind = "setStateValue" /\ req[t].pc = "done" /\ req[t].fault = "none"
        /\ req[r].id = req[t].id
        /\ getState(statesFile.data, req[t].id) = req[t].state
        /\ getState(req[r].buf, req[r].id) # getState(statesFile.data, req[r].id)
        /\ Len(statesFile.data) = 2

\* C7: every state held by a record of the document is one of the enumerated
\* states.
C7_StatesEnumerated ==
    \A i \in 1..Len(statesFile.data) : statesFile.data[i].State \in DeployStates

(***************************************************************************)
(* Claims about the path guard                                              *)
(***************************************************************************)
BaseSegments == Normalize(Split(pathIn.base))
FullSegments == ResolveSegments(pathIn.base, pathIn.target)
Inside(root, segs) == IsPrefix(root, segs)

\* The resolved path is a sibling of the base whose name begins with the base's.
SiblingWithBaseAsPrefix ==
    /\ Len(FullSegments) = Len(BaseSegments)
    /\ SubSeq(FullSegments, 1, Len(FullSegments) - 1)
          = SubSeq(BaseSegments, 1, Len(BaseSegments) - 1)
    /\ FullSegments # BaseSegments
    /\ IsPrefix(BaseSegments[Len(BaseSegments)], FullSegments[Len(FullSegments)])

\* C8: safePath(base, target) returns the resolved path exactly when the
\* resolved path is the base or lies under it, segment by segment, and throws
\* the outside-root error otherwise; a sibling whose name only begins with the
\* base's name is refused.
C8_SafePathContainment ==
    (pathIn # <<>> /\ pathOut.safe # <<>>) =>
        LET res == pathOut.safe[1] IN
        /\ res.ok <=> Inside(BaseSegments, FullSegments)
        /\ res.ok => res.path = AbsPath(FullSegments)
        /\ ~res.ok => res.error = OutsideError
        /\ SiblingWithBaseAsPrefix => ~res.ok

\* /d/a with ../ab: the sibling /d/ab is refused.
C8_Witness ==
    /\ pathIn # <<>> /\ pathOut.safe # <<>>
    /\ pathIn.base = ARCHIVES_DIR /\ pathIn.target = <<".", ".", "/", "a", "b">>
    /\ SiblingWithBaseAsPrefix
    /\ ~pathOut.safe[1].ok

HasDotDotSegment(p) == \E i \in 1..Len(Split(p)) : Split(p)[i] = <<".", ".">>

\* C9 as stated: every path with a `..` segment makes the guard fail with the
\* outside-root error, also when it resolves inside the root.
C9_DotDotFailsOutsideRoot ==
    (pathIn # <<>> /\ pathOut.safe # <<>> /\ HasDotDotSegment(pathIn.target)) =>
        /\ ~pathOut.safe[1].ok
        /\ pathOut.safe[1].error = OutsideError

\* C9, amended: every path with a `..` segment is refused by the identifier
\* validator; safePath throws the outside-root error for it only when it
\* resolves outside the root.
C9_DotDotRefusedByValidator ==
    (/\ pathIn # <<>> /\ pathOut.safe # <<>> /\ pathOut.valid # <<>>
     /\ HasDotDotSegment(pathIn.target)) =>
        /\ ~pathOut.valid[1]
        /\ pathOut.safe[1].ok <=> Inside(BaseSegments, FullSegments)

\* a/../b: refused by the validator, resolved to <base>/b by safePath.
C9_Witness ==
    /\ pathIn # <<>> /\ pathOut.safe # <<>> /\ pathOut.valid # <<>>
    /\ pathIn.target = <<"a", "/", ".", ".", "/", "b">>
    /\ ~pathOut.valid[1]
    /\ pathOut.safe[1].ok
    /\ pathOut.safe[1].path = pathIn.base \o <<"/", "b">>

\* C10: a route that has touched the disk did so with an id the validator
\* accepts and under a path inside the route's root, as it must have if both
\* checks had been applied to the id first.
C10_ChecksBeforeDisk ==
    (fsReq # <<>> /\ fsOut # <<>> /\ fsOut.touched # <<>>) =>
        /\ isValidArchiveName(fsReq.id)
        /\ Inside(Normalize(Split(fsOut.root)), Normalize(Split(fsOut.touched)))

(***************************************************************************)
(* The archive routes (src/unnamed/part_001, lines 61-349).                *)
(*                                                                         *)
(* The archive root holds one subdirectory per instance id; an archive is  *)
(* named `${id}-${timestamp}.zip`, the timestamp being the wall clock in   *)
(* milliseconds, so that within one subdirectory a name is a clock value.  *)
(* A file is the list of the volume's files it holds so far and whether    *)
(* its central directory, the last bytes of a zip, was written.  A write   *)
(* stream keeps the file it opened: what it writes shows under the path    *)
(* only while the path still names that file (`ino`).                      *)
(***************************************************************************)
MaxArchRequests == 3   \* archive requests accepted in one behaviour
MaxClock == 1          \* clock values (milliseconds) of one behaviour
MaxArchiveUnits == 3   \* MAX_ARCHIVE_SIZE, counted in units of a third of 5 GB

MAX_ARCHIVE_SIZE == MaxArchiveUnits

ArchSlots == {1, 2}
ArchIds == {<<"a">>, <<"b">>}
\* The ids the requests come with: an instance, and a segment the validator
\* and safePath refuse.  Instance b stands by.
RouteIds == {<<"a">>, <<".", ".">>}
ArchNames == 0..(MaxClock + 2)
\* Two names no create of the behaviour computes, the clock stopping at
\* MaxClock: the name of an archive made earlier, and that of a subdirectory.
OldName == MaxClock + 1
SubdirName == MaxClock + 2
\* The :archiveName of a request; for an id that is refused it plays no part.
RouteNames(id) == IF id \in ArchIds THEN ArchNames ELSE {OldName}

\* The volume's files in the order archiver walks them, and their bytes.
VolFiles == <<"f", "g">>
VolFileSet == {VolFiles[i] : i \in 1..Len(VolFiles)}
Bytes == {"x", "yy"}
Contents == [VolFileSet -> Bytes \cup {"-"}]
Empty == [n \in VolFileSet |-> "-"]
Size(b) == IF b = "yy" THEN 2 ELSE IF b = "x" THEN 1 ELSE 0
\* the bytes of a zip's central directory
DirectorySize == 1

NoEntry == [kind |-> "none", files |-> Empty, complete |-> FALSE, ino |-> 0]
DirEntry == [kind |-> "dir", files |-> Empty, complete |-> FALSE, ino |-> 0]
FileEntry(c, done, ino) == [kind |-> "file", files |-> c, complete |-> done, ino |-> ino]
NoSubdir == [exists |-> FALSE, entry |-> [n \in ArchNames |-> NoEntry]]

ArchEntry(id, name) == archives[id].entry[name]
\* fsPromises.access(path, F_OK) and fsPromises.stat(path) find the path
ArchiveExists_Always(id, name) == TRUE
ArchiveExists(id, name) == archives[id].exists /\ ArchEntry(id, name).kind # "none"
\* stats.isFile()
IsFile_AnyEntry(id, name) == archives[id].exists /\ ArchEntry(id, name).kind # "none"
IsFile(id, name) == archives[id].exists /\ ArchEntry(id, name).kind = "file"

PutEntry(id, name, e) == [archives EXCEPT ![id].entry[name] = e]

ANoRequest == [kind |-> "", id |-> <<>>, name |-> 0, pc |-> "idle", n |-> 0,
               total |-> 0, over |-> FALSE, pos |-> 0, ino |-> 0,
               buf |-> {}, files |-> Empty, complete |-> FALSE,
               status |-> 0, result |-> {}, quiet |-> FALSE]

\* res.status(code).json(...): the handler returns
AAnswer(q, code) == [q EXCEPT !.status = code, !.pc = "done"]

\* a handler that awaits something: it has started and not yet answered
AInFlight(r) == areq[r].pc \notin {"idle", "done"}
\* a handler that can still take a step
ARunning(r) == areq[r].pc \notin {"idle", "done", "pending"}
AUp == alog.up
At(r, kind, pc) == AUp /\ areq[r].kind = kind /\ areq[r].pc = pc

AMayArrive ==
    /\ AUp
    /\ alog.count < MaxArchRequests

\* The request takes the first free handler; a list in flight is no longer
\* alone, and a handler that has answered is forgotten.
AArrive(r, q) ==
    /\ ~AInFlight(r)
    /\ \A o \in ArchSlots : o < r => AInFlight(o)
    /\ areq' = [s \in ArchSlots |->
                  IF s = r
                  THEN [q EXCEPT !.n = alog.count + 1,
                                 !.quiet = \A o \in ArchSlots : ~AInFlight(o)]
                  ELSE IF AInFlight(s) THEN [areq[s] EXCEPT !.quiet = FALSE]
                  ELSE ANoRequest]
    /\ alog' = [alog EXCEPT !.count = alog.count + 1]

AStep(r, q) == areq' = [areq EXCEPT ![r] = q]

\* new Date() advances
Tick ==
    /\ AUp
    /\ clock < MaxClock
    /\ clock' = clock + 1
    /\ UNCHANGED <<deployVars, pathVars, fsVars, subVars, dlVars,
                   archives, volume, areq, alog>>

NotArch == <<deployVars, pathVars, fsVars, subVars, dlVars>>

\* What the requests that answered 200 made of the archives: an archive that
\* was created and not deleted since (`live`, `made` counting them per id,
\* `frozen` holding the file as it was when its create answered), and the
\* rollbacks that reached the volume (`rolled`).
Created(id, name, e) ==
    [alog EXCEPT !.live = @ \cup {<<id, name>>},
                 !.made[id] = @ + 1,
                 !.frozen[<<id, name>>] = e]
Deleted(id, name) ==
    [alog EXCEPT !.live = @ \ {<<id, name>>},
                 !.made[id] = @ - 1,
                 !.frozen[<<id, name>>] = NoEntry]
Rolled(q, code, files) ==
    [alog EXCEPT !.rolled = Append(@, [id |-> q.id, name |-> q.name,
                                       archive |-> q.files, status |-> code,
                                       alone |-> q.quiet, result |-> files])]

\* ---- GET /:id/archives ----
ListReceive ==
    /\ AMayArrive
    /\ \E r \in ArchSlots, id \in RouteIds :
        LET q == [ANoRequest EXCEPT !.kind = "list", !.id = id] IN
        AArrive(r, IF ~isValidArchiveName(id) THEN AAnswer(q, 400)
                   ELSE IF ~safePath(ARCHIVES_DIR, id).ok THEN AAnswer(q, 403)
                   ELSE [q EXCEPT !.pc = "access"])
    /\ UNCHANGED <<NotArch, archives, volume, clock>>

\* await fsPromises.access(archivePath): ENOENT answers an empty list
ListAccess(r) ==
    /\ At(r, "list", "access")
    /\ AStep(r, IF archives[areq[r].id].exists THEN [areq[r] EXCEPT !.pc = "readdir"]
                ELSE AAnswer(areq[r], 200))
    /\ UNCHANGED <<NotArch, archives, volume, clock, alog>>

\* await fsPromises.readdir(archivePath, {withFileTypes: true}), .filter(isFile)
ListReaddir(r) ==
    /\ At(r, "list", "readdir")
    /\ AStep(r, [areq[r] EXCEPT !.pc = "stat",
                                !.buf = {n \in ArchNames : IsFile(areq[r].id, n)}])
    /\ UNCHANGED <<NotArch, archives, volume, clock, alog>>

\* await Promise.all(stat of every file): a file removed since readdir makes
\* stat fail with ENOENT, which the catch answers with an empty list
ListStat(r) ==
    /\ At(r, "list", "stat")
    /\ AStep(r, IF \A n \in areq[r].buf : ArchiveExists(areq[r].id, n)
                THEN [AAnswer(areq[r], 200) EXCEPT !.result = areq[r].buf]
                ELSE AAnswer(areq[r], 200))
    /\ UNCHANGED <<NotArch, archives, volume, clock, alog>>

\* ---- POST /:id/archives/:volumeId/create ----
\* The volume id is the one volume of the model, which the validator and
\* safePath accept; the id goes through safePath only.
CreateReceive ==
    /\ AMayArrive
    /\ \E r \in ArchSlots, id \in RouteIds :
        LET q == [ANoRequest EXCEPT !.kind = "create", !.id = id] IN
        AArrive(r, IF ~safePath(ARCHIVES_DIR, id).ok THEN AAnswer(q, 403)
                   ELSE [q EXCEPT !.pc = "mkdir"])
    /\ UNCHANGED <<NotArch, archives, volume, clock>>

\* await fsPromises.mkdir(archivePath, {recursive: true})
CreateMkdir(r) ==
    /\ At(r, "create", "mkdir")
    /\ archives' = [archives EXCEPT ![areq[r].id].exists = TRUE]
    /\ AStep(r, [areq[r] EXCEPT !.pc = "access"])
    /\ UNCHANGED <<NotArch, volume, clock, alog>>

\* await fsPromises.access(volumePath): ENOENT answers 404.  Then the name is
\* made from new Date() and fs.createWriteStream(archiveFullPath) opens the
\* file with flag 'w': a file of that name is truncated, and stays the same
\* file; archive.pipe, archive.directory and archive.finalize() start.
CreateAccess(r) ==
    LET q == areq[r]
        e == ArchEntry(q.id, clock)
        ino == IF e.kind = "file" THEN e.ino ELSE q.n IN
    /\ At(r, "create", "access")
    /\ IF ~volume.exists
       THEN /\ AStep(r, AAnswer(q, 404))
            /\ UNCHANGED archives
       ELSE /\ archives' = PutEntry(q.id, clock, FileEntry(Empty, FALSE, ino))
            /\ AStep(r, [q EXCEPT !.pc = "emit", !.name = clock, !.ino = ino, !.pos = 1])
    /\ UNCHANGED <<NotArch, volume, clock, alog>>

\* what the handler's write stream writes shows under the path
Visible(q) == ArchEntry(q.id, q.name).kind = "file" /\ ArchEntry(q.id, q.name).ino = q.ino

\* totalBytes > MAX_ARCHIVE_SIZE
OverCap_AtCap(total) == total >= MAX_ARCHIVE_SIZE
OverCap(total) == total > MAX_ARCHIVE_SIZE

\* archive.on('data') for the next file of the volume: totalBytes grows; over
\* the cap, archiveError is set and archive.abort() detaches archiver's engine
\* before it was finalised, so that the engine never ends and the promise of
\* archive.finalize(), which settles on the engine's 'end' or 'error', stays
\* pending; the output stream is ended and the file stays as it is.
CreateEmit(r) ==
    LET q == areq[r]
        f == VolFiles[q.pos]
        b == IF volume.exists THEN volume.files[f] ELSE "-"
        total == q.total + Size(b)
        wrote == [q EXCEPT !.total = total] IN
    /\ At(r, "create", "emit")
    /\ archives' = IF Visible(q) /\ b # "-"
                   THEN [archives EXCEPT ![q.id].entry[q.name].files[f] = b]
                   ELSE archives
    /\ AStep(r, IF OverCap(total) THEN [wrote EXCEPT !.over = TRUE, !.pc = "pending"]
                ELSE IF q.pos = Len(VolFiles) THEN [wrote EXCEPT !.pc = "directory"]
                ELSE [wrote EXCEPT !.pos = q.pos + 1])
    /\ UNCHANGED <<NotArch, volume, clock, alog>>

\* archive.on('data') for the central directory, written when the engine is
\* finalised: archive.abort() on a finalised archive does nothing, the engine
\* ends and the promise of archive.finalize() resolves.
CreateDirectory(r) ==
    LET q == areq[r]
        total == q.total + DirectorySize IN
    /\ At(r, "create", "directory")
    /\ archives' = IF Visible(q)
                   THEN [archives EXCEPT ![q.id].entry[q.name].complete = TRUE]
                   ELSE archives
    /\ AStep(r, [q EXCEPT !.total = total, !.complete = TRUE,
                          !.over = OverCap(total), !.pc = "finalized"])
    /\ UNCHANGED <<NotArch, volume, clock, alog>>

\* after await archive.finalize(): if (archiveError) unlink and throw, else
\* res.json({message: 'Archive created successfully', ...})
CreateFinalized(r) ==
    LET q == areq[r] IN
    /\ At(r, "create", "finalized")
    /\ IF q.over
       THEN /\ AStep(r, [q EXCEPT !.pc = "unlink"])
            /\ UNCHANGED alog
       ELSE /\ AStep(r, AAnswer(q, 200))
            /\ alog' = Created(q.id, q.name, ArchEntry(q.id, q.name))
    /\ UNCHANGED <<NotArch, archives, volume, clock>>

\* await fsPromises.unlink(archiveFullPath), a failure of which is logged;
\* throw archiveError, which the catch answers with 413
CreateUnlink(r) ==
    LET q == areq[r] IN
    /\ At(r, "create", "unlink")
    /\ archives' = PutEntry(q.id, q.name, NoEntry)
    /\ AStep(r, AAnswer(q, 413))
    /\ UNCHANGED <<NotArch, volume, clock, alog>>

\* ---- GET /:id/archives/download/:archiveName ----
DownloadReceive ==
    /\ AMayArrive
    /\ \E r \in ArchSlots, id \in RouteIds : \E name \in RouteNames(id) :
        LET q == [ANoRequest EXCEPT !.kind = "download", !.id = id, !.name = name] IN
        AArrive(r, IF ~isValidArchiveName(id) THEN AAnswer(q, 400)
                   ELSE IF ~safePath(ARCHIVES_DIR, id).ok THEN AAnswer(q, 403)
                   ELSE [q EXCEPT !.pc = "stat"])
    /\ UNCHANGED <<NotArch, archives, volume, clock>>

\* await fsPromises.stat(archivePath); if (!stats.isFile()) 404
DownloadStat(r) ==
    LET q == areq[r] IN
    /\ At(r, "download", "stat")
    /\ AStep(r, IF IsFile(q.id, q.name) THEN [q EXCEPT !.pc = "stream"]
                ELSE AAnswer(q, 404))
    /\ UNCHANGED <<NotArch, archives, volume, clock, alog>>

\* await pipeline(fs.createReadStream(archivePath), res)
DownloadStream(r) ==
    LET q == areq[r] IN
    /\ At(r, "download", "stream")
    /\ AStep(r, IF ArchiveExists(q.id, q.name)
                THEN AAnswer(q, 200)
                ELSE AAnswer(q, 404))
    /\ UNCHANGED <<NotArch, archives, volume, clock, alog>>

\* ---- POST /:id/archives/delete/:archiveName ----
DeleteReceive ==
    /\ AMayArrive
    /\ \E r \in ArchSlots, id \in RouteIds : \E name \in RouteNames(id) :
        LET q == [ANoRequest EXCEPT !.kind = "delete", !.id = id, !.name = name] IN
        AArrive(r, IF ~isValidArchiveName(id) THEN AAnswer(q, 400)
                   ELSE IF ~safePath(ARCHIVES_DIR, id).ok THEN AAnswer(q, 403)
                   ELSE [q EXCEPT !.pc = "stat"])
    /\ UNCHANGED <<NotArch, archives, volume, clock>>

\* await fsPromises.stat(archivePath): ENOENT answers 404; if (!stats.isFile()) 404
DeleteStat(r) ==
    LET q == areq[r] IN
    /\ At(r, "delete", "stat")
    /\ AStep(r, IF IsFile(q.id, q.name) THEN [q EXCEPT !.pc = "unlink"]
                ELSE AAnswer(q, 404))
    /\ UNCHANGED <<NotArch, archives, volume, clock, alog>>

\* await fsPromises.unlink(archivePath): ENOENT answers 404
DeleteUnlink(r) ==
    LET q == areq[r] IN
    /\ At(r, "delete", "unlink")
    /\ IF IsFile(q.id, q.name)
       THEN /\ archives' = PutEntry(q.id, q.name, NoEntry)
            /\ AStep(r, AAnswer(q, 200))
            /\ alog' = Deleted(q.id, q.name)
       ELSE \* ENOENT answers 404; unlink of a directory fails otherwise: 500
            /\ AStep(r, AAnswer(q, IF ArchiveExists(q.id, q.name) THEN 500 ELSE 404))
            /\ UNCHANGED <<archives, alog>>
    /\ UNCHANGED <<NotArch, volume, clock>>

\* ---- POST /:id/archives/rollback/:volumeId/:archiveName ----
RollbackReceive ==
    /\ AMayArrive
    /\ \E r \in ArchSlots, id \in RouteIds : \E name \in RouteNames(id) :
        LET q == [ANoRequest EXCEPT !.kind = "rollback", !.id = id, !.name = name] IN
        AArrive(r, IF ~isValidArchiveName(id) THEN AAnswer(q, 400)
                   ELSE IF ~safePath(ARCHIVES_DIR, id).ok THEN AAnswer(q, 403)
                   ELSE [q EXCEPT !.pc = "access"])
    /\ UNCHANGED <<NotArch, archives, volume, clock>>

\* await fsPromises.access(archivePath, F_OK): ENOENT answers 404
RollbackAccess(r) ==
    LET q == areq[r] IN
    /\ At(r, "rollback", "access")
    /\ AStep(r, IF ArchiveExists(q.id, q.name) THEN [q EXCEPT !.pc = "readdir"]
                ELSE AAnswer(q, 404))
    /\ UNCHANGED <<NotArch, archives, volume, clock, alog>>

\* await fsPromises.readdir(volumePath): ENOENT leads to mkdir
RollbackReaddir(r) ==
    LET q == areq[r] IN
    /\ At(r, "rollback", "readdir")
    /\ AStep(r, IF volume.exists
                THEN [q EXCEPT !.pc = "rm",
                               !.buf = {n \in VolFileSet : volume.files[n] # "-"}]
                ELSE [q EXCEPT !.pc = "mkdir"])
    /\ UNCHANGED <<NotArch, archives, volume, clock, alog>>

\* the entries of the volume that rm leaves in place
Kept_Last(buf) == IF buf = {} THEN {} ELSE {VolFiles[Len(VolFiles)]} \cap buf
Kept(buf) == {}

\* await Promise.all(files.map(file => fsPromises.rm(..., {recursive, force})))
RollbackRm(r) ==
    LET q == areq[r] IN
    /\ At(r, "rollback", "rm")
    /\ volume' = [volume EXCEPT !.files =
                    [n \in VolFileSet |->
                        IF n \in q.buf \ Kept(q.buf) THEN "-" ELSE volume.files[n]]]
    /\ AStep(r, [q EXCEPT !.pc = "open"])
    /\ UNCHANGED <<NotArch, archives, clock, alog>>

\* await fsPromises.mkdir(volumePath, {recursive: true})
RollbackMkdir(r) ==
    LET q == areq[r] IN
    /\ At(r, "rollback", "mkdir")
    /\ volume' = [volume EXCEPT !.exists = TRUE]
    /\ AStep(r, [q EXCEPT !.pc = "open"])
    /\ UNCHANGED <<NotArch, archives, clock, alog>>

\* fs.createReadStream(archivePath) piped into unzipper.Extract: the read
\* stream has no 'error' listener, so that a path that is gone by now, or is a
\* directory, ends the process with an uncaught 'error' event.
RollbackOpen(r) ==
    LET q == areq[r]
        e == ArchEntry(q.id, q.name) IN
    /\ At(r, "rollback", "open")
    /\ IF IsFile(q.id, q.name)
       THEN /\ AStep(r, [q EXCEPT !.pc = "extract", !.pos = 1,
                                  !.files = e.files, !.complete = e.complete])
            /\ UNCHANGED alog
       ELSE /\ alog' = [alog EXCEPT !.up = FALSE]
            /\ UNCHANGED areq
    /\ UNCHANGED <<NotArch, archives, volume, clock>>

\* Extract writes the next entry of the zip under the volume path, creating
\* the directory where it is missing; after the last one 'close' resolves and
\* the route answers 200, where an archive without its central directory makes
\* the extraction fail: 500.
RollbackExtract(r) ==
    LET q == areq[r]
        f == VolFiles[q.pos]
        files == IF q.files[f] = "-" THEN volume.files
                 ELSE [volume.files EXCEPT ![f] = q.files[f]]
        code == IF q.complete THEN 200 ELSE 500 IN
    /\ At(r, "rollback", "extract")
    /\ volume' = IF q.files[f] = "-" THEN volume ELSE [exists |-> TRUE, files |-> files]
    /\ IF q.pos = Len(VolFiles)
       THEN /\ AStep(r, AAnswer(q, code))
            /\ alog' = Rolled(q, code, files)
       ELSE /\ AStep(r, [q EXCEPT !.pos = q.pos + 1])
            /\ UNCHANGED alog
    /\ UNCHANGED <<NotArch, archives, clock>>

\* The archives an earlier run left.  Instance a: no subdirectory, or one
\* that holds nothing, an archive made earlier, a subdirectory, or both;
\* instance b: one archive, which no request of the behaviour names.
InitBody == [n \in VolFileSet |-> IF n = "f" THEN "x" ELSE "-"]
InitSubdirs(entries) ==
    {NoSubdir}
    \cup {[exists |-> TRUE,
           entry |-> [n \in ArchNames |-> IF n = OldName THEN e
                                          ELSE IF n = SubdirName THEN d
                                          ELSE NoEntry]] :
            e \in entries, d \in {NoEntry, DirEntry}}
StandBy == [exists |-> TRUE,
            entry |-> [n \in ArchNames |-> IF n = OldName THEN FileEntry(InitBody, TRUE, 0)
                                           ELSE NoEntry]]

\* The volume an earlier run left: none, an empty one, and volumes whose
\* archive stays within the cap, passes it with its central directory, or
\* passes it with a file.
InitVolumes ==
    {c \in Contents : \/ c["f"] = "-" /\ c["g"] = "-"
                      \/ c["f"] # "-" /\ c["g"] # "-" /\ (c["f"] = "x" => c["g"] = "x")}

InitArchives(entries) ==
    /\ statesFile = [exists |-> FALSE, data |-> <<>>, valid |-> TRUE]
    /\ InitHandlers
    /\ InitOthers
    /\ serial = FALSE
    /\ subFs = <<>> /\ subRun = <<>> /\ dlFs = <<>> /\ dlRun = <<>>
    /\ \E sub \in InitSubdirs(entries) :
        LET tree == [id \in ArchIds |-> IF id = <<"a">> THEN sub ELSE StandBy]
            whole(k) == tree[k[1]].entry[k[2]].kind = "file"
                        /\ tree[k[1]].entry[k[2]].complete IN
        /\ archives = tree
        /\ alog = [up |-> TRUE, count |-> 0,
                   live |-> {k \in ArchIds \X ArchNames : whole(k)},
                   made |-> [id \in ArchIds |->
                               Cardinality({n \in ArchNames : whole(<<id, n>>)})],
                   frozen |-> [k \in ArchIds \X ArchNames |->
                                 IF whole(k) THEN tree[k[1]].entry[k[2]] ELSE NoEntry],
                   rolled |-> <<>>]
    /\ volume \in {[exists |-> FALSE, files |-> Empty]}
                  \cup {[exists |-> TRUE, files |-> c] : c \in InitVolumes}
    /\ clock = 0
    /\ areq = [r \in ArchSlots |-> ANoRequest]

InitArch == InitArchives({NoEntry, FileEntry(InitBody, TRUE, 0)})
\* An archive whose create never answered may be there as well.
InitRoll == InitArchives({NoEntry, FileEntry(InitBody, TRUE, 0),
                          FileEntry(InitBody, FALSE, 0)})

NextArch ==
    \/ Tick
    \/ ListReceive \/ CreateReceive \/ DownloadReceive \/ DeleteReceive
    \/ \E r \in ArchSlots : ListAccess(r)
    \/ \E r \in ArchSlots : ListReaddir(r)
    \/ \E r \in ArchSlots : ListStat(r)
    \/ \E r \in ArchSlots : CreateMkdir(r)
    \/ \E r \in ArchSlots : CreateAccess(r)
    \/ \E r \in ArchSlots : CreateEmit(r)
    \/ \E r \in ArchSlots : CreateDirectory(r)
    \/ \E r \in ArchSlots : CreateFinalized(r)
    \/ \E r \in ArchSlots : CreateUnlink(r)
    \/ \E r \in ArchSlots : DownloadStat(r)
    \/ \E r \in ArchSlots : DownloadStream(r)
    \/ \E r \in ArchSlots : DeleteStat(r)
    \/ \E r \in ArchSlots : DeleteUnlink(r)

NextRoll ==
    \/ RollbackReceive \/ DeleteReceive
    \/ \E r \in ArchSlots : DeleteStat(r)
    \/ \E r \in ArchSlots : DeleteUnlink(r)
    \/ \E r \in ArchSlots : RollbackAccess(r)
    \/ \E r \in ArchSlots : RollbackReaddir(r)
    \/ \E r \in ArchSlots : RollbackRm(r)
    \/ \E r \in ArchSlots : RollbackMkdir(r)
    \/ \E r \in ArchSlots : RollbackOpen(r)
    \/ \E r \in ArchSlots : RollbackExtract(r)

\* Listing, creating, downloading and deleting archives, the handlers
\* interleaving at every await.
SpecArch == InitArch /\ [][NextArch]_vars
\* Rolling a volume back and deleting archives, the handlers interleaving at
\* every await.
SpecRoll == InitRoll /\ [][NextRoll]_vars

(***************************************************************************)
(* Claims about the archive routes                                         *)
(***************************************************************************)
\* a handler that takes no further step: it answered, or awaits for ever
Settled(r) == areq[r].pc \in {"done", "pending"}

\* C11: a create whose emitted bytes passed MAX_ARCHIVE_SIZE ends with the
\* answer 413 and without its partial file under the archive root, and a
\* create within the cap that came to its end answers 200.
C11_SizeCapDeletesPartial ==
    \A r \in ArchSlots :
        LET q == areq[r] IN
        (q.kind = "create" /\ Settled(r)) =>
            /\ q.total > MAX_ARCHIVE_SIZE =>
                  /\ q.status = 413
                  /\ ~(ArchEntry(q.id, q.name).kind = "file"
                       /\ ArchEntry(q.id, q.name).ino = q.ino)
            /\ (q.complete /\ q.total <= MAX_ARCHIVE_SIZE) => q.status = 200
            /\ q.status = 200 => q.total <= MAX_ARCHIVE_SIZE

\* C12: a list that ran while no other request was in flight answers 200 with
\* exactly the archives of that id that were created with success and not
\* deleted since, one entry for each such create; without a subdirectory the
\* answer is the empty list.
C12_ListIsCreatedMinusDeleted ==
    \A r \in ArchSlots :
        LET q == areq[r] IN
        (q.kind = "list" /\ q.pc = "done" /\ q.id \in ArchIds /\ q.quiet) =>
            /\ q.status = 200
            /\ q.result = {n \in ArchNames : <<q.id, n>> \in alog.live}
            /\ Cardinality(q.result) = alog.made[q.id]
            /\ ~archives[q.id].exists => q.result = {}

\* the step is one of handler r, of the given route
StepOf(r, kind) == areq[r].kind = kind /\ areq'[r].pc # areq[r].pc /\ AInFlight(r)
Absent(id, name) == ~archives[id].exists \/ archives[id].entry[name].kind = "none"
RegularFile(id, name) == archives[id].exists /\ archives[id].entry[name].kind = "file"

\* C13: a delete that finds its path absent, or not a regular file, answers
\* 404 and removes nothing; a delete that answers 200 has removed the named
\* file and nothing else, in any instance's subdirectory.
C13_DeleteRemovesOnlyNamed ==
    [][\A r \in ArchSlots :
        LET q == areq[r] IN
        StepOf(r, "delete") =>
            /\ volume' = volume
            /\ ~RegularFile(q.id, q.name) =>
                  /\ areq'[r].pc = "done" /\ areq'[r].status = 404
                  /\ archives' = archives
            /\ areq'[r].status = 200 =>
                  /\ RegularFile(q.id, q.name)
                  /\ Absent(q.id, q.name)'
                  /\ \A id \in ArchIds, n \in ArchNames :
                        <<id, n>> # <<q.id, q.name>> =>
                            archives'[id].entry[n] = archives[id].entry[n]
                  /\ \A id \in ArchIds : archives'[id].exists = archives[id].exists
            /\ areq'[r].status # 200 => archives' = archives]_vars
C13_Witness ==
    /\ \E r \in ArchSlots :
        /\ areq[r].kind = "delete" /\ areq[r].pc = "done" /\ areq[r].status = 404
        /\ archives[areq[r].id].entry[areq[r].name].kind = "dir"
    /\ \E r \in ArchSlots :
        /\ areq[r].kind = "delete" /\ areq[r].pc = "done" /\ areq[r].status = 200
        /\ archives[<<"b">>].entry[OldName].kind = "file"

\* C14: an archive whose create answered 200 stays as it was at that moment
\* until a delete of that archive removes it.
C14_ArchiveNeverMutated ==
    \A k \in ArchIds \X ArchNames :
        alog.frozen[k] # NoEntry => ArchEntry(k[1], k[2]) = alog.frozen[k]

\* C15: a rollback whose archive does not exist answers 404 at its first
\* step, which leaves the volume as it is: no entry of the volume is removed
\* before the archive was found.
C15_RollbackChecksArchiveFirst ==
    [][\A r \in ArchSlots :
        LET q == areq[r] IN
        StepOf(r, "rollback") =>
            /\ (q.pc = "access" /\ Absent(q.id, q.name)) =>
                  /\ areq'[r].pc = "done" /\ areq'[r].status = 404
                  /\ volume' = volume
            /\ q.pc = "access" => volume' = volume
            /\ areq'[r].status = 404 => (q.pc = "access" /\ Absent(q.id, q.name))]_vars
C15_Witness ==
    \E r \in ArchSlots :
        /\ areq[r].kind = "rollback" /\ areq[r].pc = "done" /\ areq[r].status = 404
        /\ Absent(areq[r].id, areq[r].name)
        /\ volume.exists /\ volume.files # Empty

\* two rollbacks in succession, each alone and answered 200, of one archive
Successive(i) ==
    LET a == alog.rolled[i]
        b == alog.rolled[i + 1] IN
    /\ a.status = 200 /\ b.status = 200
    /\ a.alone /\ b.alone
    /\ a.id = b.id /\ a.name = b.name /\ a.archive = b.archive

\* C16: two rollbacks of the same archive in succession leave the same files
\* with the same bytes, whatever the volume held before the first: each
\* leaves exactly the files of the archive.
C16_RollbackTwiceSame ==
    /\ \A i \in 1..(Len(alog.rolled) - 1) :
          Successive(i) => alog.rolled[i].result = alog.rolled[i + 1].result
    /\ \A i \in 1..Len(alog.rolled) :
          (alog.rolled[i].status = 200 /\ alog.rolled[i].alone) =>
              alog.rolled[i].result = alog.rolled[i].archive
C16_Witness ==
    /\ Len(alog.rolled) >= 2
    /\ Successive(1)
    /\ alog.rolled[1].result = volume.files

(***************************************************************************)
(* replaceVariables (src/unnamed/part_001, lines 488-524).                 *)
(*                                                                         *)
(* A text is a sequence of characters.  The mapping is the list of         *)
(* Object.entries(variables), in the order of insertion.                   *)
(***************************************************************************)
MaxPieces == 2      \* pieces a file's text is made of
MaxSubCalls == 2    \* calls of replaceVariables on the directory

SubKeys == {"A", "B"}
\* `{{${key}}}`
Token(key) == <<"{", "{", key, "}", "}">>

\* Texts: tokens, parts of tokens and other characters, put together.
Pieces == {<<"5">>, <<"{">>, Token("A"), Token("B"), <<"A", "}", "}">>}
RECURSIVE Texts(_)
Texts(n) == IF n = 0 THEN {<<>>}
            ELSE Texts(n - 1) \cup {t \o q : t \in Texts(n - 1), q \in Pieces}

\* Values: a port number, nothing, another key's token, and the replacement
\* pattern `$&` of String.prototype.replace.
Values == {<<"5">>, <<>>, Token("B"), <<"$", "&">>}
Mappings ==
    {<<>>}
    \cup {<<[key |-> k, value |-> v]>> : k \in SubKeys, v \in Values}
    \cup {mp \in [1..2 -> [key : SubKeys, value : Values]] : mp[1].key # mp[2].key}

\* regex.test(content), regex being new RegExp(`{{${key}}}`, "g") at lastIndex 0
RegexTest(text, key) ==
    \E i \in 1..Len(text) :
        i + 4 <= Len(text) /\ SubSeq(text, i, i + 4) = Token(key)

\* The replacement text of String.prototype.replace: `$$` is a dollar sign and
\* `$&` the matched substring.
RECURSIVE ExpandFrom(_, _, _)
ExpandFrom(value, matched, i) ==
    IF i > Len(value) THEN <<>>
    ELSE IF value[i] = "$" /\ i < Len(value) /\ value[i + 1] = "$"
         THEN <<"$">> \o ExpandFrom(value, matched, i + 2)
    ELSE IF value[i] = "$" /\ i < Len(value) /\ value[i + 1] = "&"
         THEN matched \o ExpandFrom(value, matched, i + 2)
    ELSE <<value[i]>> \o ExpandFrom(value, matched, i + 1)

\* content.replace(regex, value) with a global regex: every match, from left
\* to right, matches not overlapping
RECURSIVE ReplaceFrom(_, _, _, _)
ReplaceFrom(text, key, value, i) ==
    IF i > Len(text) THEN <<>>
    ELSE IF i + 4 <= Len(text) /\ SubSeq(text, i, i + 4) = Token(key)
         THEN ExpandFrom(value, Token(key), 1) \o ReplaceFrom(text, key, value, i + 5)
    ELSE <<text[i]>> \o ReplaceFrom(text, key, value, i + 1)

\* changesMade = true
MarkChanged_Always(changed, matched) == TRUE
MarkChanged(changed, matched) == changed \/ matched

\* for (const [key, value] of Object.entries(variables)) { if (regex.test(content))
\* { content = content.replace(regex, value); changesMade = true } }
RECURSIVE SubstituteFrom(_, _, _, _)
SubstituteFrom(text, mapping, i, changed) ==
    IF i > Len(mapping) THEN [text |-> text, changed |-> changed]
    ELSE LET e == mapping[i]
             matched == RegexTest(text, e.key) IN
         SubstituteFrom(IF matched THEN ReplaceFrom(text, e.key, e.value, 1) ELSE text,
                        mapping, i + 1, MarkChanged(changed, matched))
Substitute(text, mapping) == SubstituteFrom(text, mapping, 1, FALSE)

\* file.endsWith(".jar")
EndsWith(name, suffix) ==
    Len(name) >= Len(suffix)
    /\ SubSeq(name, Len(name) - Len(suffix) + 1, Len(name)) = suffix
Jar == <<".", "j", "a", "r">>
\* stats.isFile() && !file.endsWith(".jar")
Processed_JarToo(name) == subFs[name].kind = "file"
Processed(name) == subFs[name].kind = "file" /\ ~EndsWith(name, Jar)

\* The directory: a text file of any text, a text file without a token, a
\* packaged application and a subdirectory.
SubNames == {<<"s">>, <<"t">>, <<"p">> \o Jar, <<"d">>}
SubDirs(text) ==
    [n \in SubNames |->
        IF n = <<"s">> THEN [kind |-> "file", text |-> text]
        ELSE IF n = <<"t">> THEN [kind |-> "file", text |-> <<"5">>]
        ELSE IF n = <<"d">> THEN [kind |-> "dir", text |-> <<>>]
        ELSE [kind |-> "file", text |-> Token("A")]]

NoTask == [pc |-> "none", text |-> <<>>]

NotSub == <<deployVars, pathVars, fsVars, archVars, dlVars>>

\* replaceVariables(dir, variables) is called: await fs.readdir(dir)
SubCall ==
    /\ subRun.pc \in {"idle", "returned"}
    /\ subRun.calls < MaxSubCalls
    /\ subRun' = [subRun EXCEPT !.pc = "readdir", !.calls = @ + 1,
                                !.before = subFs, !.written = {},
                                !.first = IF subRun.calls = 1 THEN subFs ELSE @]
    /\ UNCHANGED <<NotSub, subFs>>

\* files.map(async (file) => ...): each task runs up to its await fs.stat
SubReaddir ==
    /\ subRun.pc = "readdir"
    /\ subRun' = [subRun EXCEPT !.pc = "tasks",
                                !.task = [n \in SubNames |-> [NoTask EXCEPT !.pc = "stat"]]]
    /\ UNCHANGED <<NotSub, subFs>>

\* after await fs.stat(filePath): a file that is no .jar is read
SubStat(n) ==
    /\ subRun.pc = "tasks" /\ subRun.task[n].pc = "stat"
    /\ subRun' = [subRun EXCEPT !.task[n].pc = IF Processed(n) THEN "read" ELSE "done"]
    /\ UNCHANGED <<NotSub, subFs>>

\* after await fs.readFile(filePath, "utf8"): the loop over the mapping;
\* if (changesMade) await fs.writeFile(...)
SubRead(n) ==
    LET out == Substitute(subFs[n].text, subRun.mapping) IN
    /\ subRun.pc = "tasks" /\ subRun.task[n].pc = "read"
    /\ subRun' = [subRun EXCEPT !.task[n] = IF out.changed
                                             THEN [pc |-> "write", text |-> out.text]
                                             ELSE [pc |-> "done", text |-> <<>>]]
    /\ UNCHANGED <<NotSub, subFs>>

\* await fs.writeFile(filePath, content, "utf8")
SubWrite(n) ==
    /\ subRun.pc = "tasks" /\ subRun.task[n].pc = "write"
    /\ subFs' = [subFs EXCEPT ![n].text = subRun.task[n].text]
    /\ subRun' = [subRun EXCEPT !.task[n] = [pc |-> "done", text |-> <<>>],
                                !.written = @ \cup {n}]
    /\ UNCHANGED NotSub

\* await Promise.all(replacePromises) resolves: replaceVariables returns
SubReturn ==
    /\ subRun.pc = "tasks"
    /\ \A n \in SubNames : subRun.task[n].pc = "done"
    /\ subRun' = [subRun EXCEPT !.pc = "returned",
                                !.task = [n \in SubNames |-> NoTask]]
    /\ UNCHANGED <<NotSub, subFs>>

InitSub ==
    /\ statesFile = [exists |-> FALSE, data |-> <<>>, valid |-> TRUE]
    /\ InitHandlers
    /\ InitOthers
    /\ serial = FALSE
    /\ archives = <<>> /\ volume = <<>> /\ clock = 0 /\ areq = <<>> /\ alog = <<>>
    /\ dlFs = <<>> /\ dlRun = <<>>
    /\ subFs \in {SubDirs(t) : t \in Texts(MaxPieces)}
    /\ subRun \in {[pc |-> "idle", calls |-> 0, mapping |-> mp,
                    task |-> [n \in SubNames |-> NoTask],
                    before |-> <<>>, first |-> <<>>, written |-> {}] : mp \in Mappings}

NextSub ==
    \/ SubCall
    \/ SubReaddir
    \/ \E n \in SubNames : SubStat(n)
    \/ \E n \in SubNames : SubRead(n)
    \/ \E n \in SubNames : SubWrite(n)
    \/ SubReturn

\* Calls of replaceVariables, one after the other, with one mapping on one
\* directory.
SpecSub == InitSub /\ [][NextSub]_vars

(***************************************************************************)
(* Claims about replaceVariables                                            *)
(***************************************************************************)
\* the text holds `{{key}}` somewhere
HasToken(text, key) ==
    \E i \in 1..Len(text) :
        /\ i + 4 <= Len(text)
        /\ text[i] = "{" /\ text[i + 1] = "{" /\ text[i + 2] = key
        /\ text[i + 3] = "}" /\ text[i + 4] = "}"
MappedKeys == {subRun.mapping[i].key : i \in 1..Len(subRun.mapping)}
\* every value is made of digits, like a port number
PlainValues ==
    \A i \in 1..Len(subRun.mapping) :
        /\ subRun.mapping[i].value # <<>>
        /\ \A j \in 1..Len(subRun.mapping[i].value) : subRun.mapping[i].value[j] = "5"
Skipped(n) == subRun.before[n].kind # "file" \/ n = <<"p", ".", "j", "a", "r">>

\* C17: when replaceVariables has returned, a file was written exactly if it
\* is an immediate file that is no .jar and held a token of a key of the
\* mapping; every other entry is as it was; with values made of digits no
\* token of a key is left in a processed file, and `5{{A}}` under A = "5"
\* has become `55`.
C17_ReplaceWritesOnlyChangedFiles ==
    subRun.pc = "returned" =>
        \A n \in SubNames :
            LET old == subRun.before[n]
                new == subFs[n] IN
            /\ n \in subRun.written <=>
                  (~Skipped(n) /\ \E k \in MappedKeys : HasToken(old.text, k))
            /\ n \notin subRun.written => new = old
            /\ (~Skipped(n) /\ PlainValues) =>
                  \A k \in MappedKeys : ~HasToken(new.text, k)
            /\ (~Skipped(n) /\ old.text = <<"5">> \o Token("A")
                /\ subRun.mapping = <<[key |-> "A", value |-> <<"5">>]>>) =>
                  new.text = <<"5", "5">>
C17_Witness ==
    /\ subRun.pc = "returned"
    /\ subRun.mapping = <<[key |-> "A", value |-> <<"5">>]>>
    /\ subRun.before[<<"s">>].text = <<"5">> \o Token("A")
    /\ subRun.written = {<<"s">>}
    /\ subFs[<<"s">>].text = <<"5", "5">>
    /\ subFs[<<"p", ".", "j", "a", "r">>].text = Token("A")

\* C18: when replaceVariables has returned for the second time, every file
\* holds what it held when the first call had returned.
C18_ReplaceTwiceSameAsOnce ==
    (subRun.pc = "returned" /\ subRun.calls >= 2) => subFs = subRun.first

(***************************************************************************)
(* downloadFile and downloadInstallScripts (src/unnamed/part_001, lines    *)
(* 420-486).                                                               *)
(*                                                                         *)
(* A file is the bytes it holds, each marked with the download that wrote  *)
(* it, and its identity (`ino`): a write stream writes into the file it    *)
(* opened, wherever a rename has moved it and whether or not an unlink has *)
(* removed it from the directory.                                          *)
(***************************************************************************)
MaxDownloads == 2   \* script descriptors of one call
MaxChunks == 2      \* chunks of a response body

DlPaths == {"p", "q"}
\* the mark of bytes that were there before the call
Old == 0
NoBytes == [k \in 1..MaxChunks |-> -1]
NoFile == [ino |-> -1, body |-> NoBytes]
\* the whole body of download i
Body(i) == [k \in 1..MaxChunks |-> i]
OldFile == [ino |-> Old, body |-> Body(Old)]

\* path.join(dir, filename) and `${filePath}.tmp`
DestOf(i) == dlFs.dest[dlRun.job[i].path]
TempOf(i) == dlFs.tmp[dlRun.job[i].path]

\* fsSync.existsSync(tempPath)
ExistsSync_Never(path) == FALSE
ExistsSync(path) == dlFs.tmp[path] # NoFile

\* a download whose promise has settled
DlSettled(i) == dlRun.job[i].pc \in {"ok", "failed"}
\* results.filter(r => !r.success)
FailedDownloads == {i \in 1..dlRun.n : dlRun.job[i].pc = "failed"}
\* await Promise.all(downloadPromises): no promise of downloadPromises rejects,
\* so that it resolves when all of them have resolved
Joined_FailFast == (\A i \in 1..dlRun.n : DlSettled(i)) \/ FailedDownloads # {}
Joined == \A i \in 1..dlRun.n : DlSettled(i)

NotDl == <<deployVars, pathVars, fsVars, archVars, subVars>>

DlJob(i, q) == dlRun' = [dlRun EXCEPT !.job[i] = q]

\* downloadInstallScripts is called: if (!fsSync.existsSync(dir)) await fs.mkdir;
\* installScripts.map starts every download: each runs up to https.get
DlStart ==
    /\ dlRun.pc = "idle"
    /\ dlFs' = [dlFs EXCEPT !.dir = TRUE]
    /\ dlRun' = [dlRun EXCEPT !.pc = "downloading",
                              !.job = [i \in 1..dlRun.n |->
                                         [dlRun.job[i] EXCEPT !.pc = "requested"]]]
    /\ UNCHANGED NotDl

\* .on("error"): the request fails; reject(err)
DlRequestError(i) ==
    /\ dlRun.pc = "downloading" /\ dlRun.job[i].pc = "requested"
    /\ DlJob(i, [dlRun.job[i] EXCEPT !.pc = "failed"])
    /\ UNCHANGED <<NotDl, dlFs>>

\* the response arrives: a status other than 200 rejects; with 200
\* fsSync.createWriteStream(tempPath) opens the temporary file, truncating
\* one that is there, and pipeline(response, writeStream) starts
DlResponse(i) ==
    LET q == dlRun.job[i]
        t == dlFs.tmp[q.path]
        ino == IF t = NoFile THEN i ELSE t.ino IN
    /\ dlRun.pc = "downloading" /\ q.pc = "requested"
    /\ \E status \in {200, 404} :
        IF status = 200
        THEN /\ dlFs' = [dlFs EXCEPT !.tmp[q.path] = [ino |-> ino, body |-> NoBytes]]
             /\ DlJob(i, [q EXCEPT !.pc = "stream", !.ino = ino])
        ELSE /\ DlJob(i, [q EXCEPT !.pc = "failed"])
             /\ UNCHANGED dlFs
    /\ UNCHANGED NotDl

\* the file the stream of download i writes into, with one more chunk
Written(f, q, i) ==
    IF f.ino = q.ino /\ f # NoFile THEN [f EXCEPT !.body[q.sent + 1] = i] ELSE f

\* pipeline writes the next chunk of the body; after the last one it resolves
DlChunk(i) ==
    LET q == dlRun.job[i] IN
    /\ dlRun.pc = "downloading" /\ q.pc = "stream"
    /\ dlFs' = [dlFs EXCEPT !.tmp[q.path] = Written(@, q, i),
                            !.dest[q.path] = Written(@, q, i)]
    /\ DlJob(i, [q EXCEPT !.sent = q.sent + 1,
                          !.pc = IF q.sent + 1 = MaxChunks THEN "rename" ELSE "stream"])
    /\ UNCHANGED NotDl

\* what the catch does first: if (fsSync.existsSync(tempPath)) await fs.unlink
Caught(q) == [q EXCEPT !.pc = IF ExistsSync(q.path) THEN "unlink" ELSE "failed"]

\* pipeline rejects: the connection breaks before the body is complete
DlBreak(i) ==
    LET q == dlRun.job[i] IN
    /\ dlRun.pc = "downloading" /\ q.pc = "stream"
    /\ DlJob(i, Caught(q))
    /\ UNCHANGED <<NotDl, dlFs>>

\* await fs.rename(tempPath, filePath); resolve().  Without a temporary file
\* rename fails with ENOENT, which the catch takes.
DlRename(i) ==
    LET q == dlRun.job[i] IN
    /\ dlRun.pc = "downloading" /\ q.pc = "rename"
    /\ IF dlFs.tmp[q.path] # NoFile
       THEN /\ dlFs' = [dlFs EXCEPT !.dest[q.path] = dlFs.tmp[q.path],
                                    !.tmp[q.path] = NoFile]
            /\ DlJob(i, [q EXCEPT !.pc = "ok"])
       ELSE /\ DlJob(i, Caught(q))
            /\ UNCHANGED dlFs
    /\ UNCHANGED NotDl

\* await fs.unlink(tempPath).catch(() => {}); reject(err)
DlUnlink(i) ==
    LET q == dlRun.job[i] IN
    /\ dlRun.pc = "downloading" /\ q.pc = "unlink"
    /\ dlFs' = [dlFs EXCEPT !.tmp[q.path] = NoFile]
    /\ DlJob(i, [q EXCEPT !.pc = "failed"])
    /\ UNCHANGED NotDl

\* after await Promise.all(downloadPromises): throw new Error(`Failed to
\* download ${failedDownloads.length} scripts`) or return
DlJoin ==
    /\ dlRun.pc = "downloading"
    /\ Joined
    /\ dlRun' = [dlRun EXCEPT !.pc = IF FailedDownloads # {} THEN "threw" ELSE "returned",
                              !.count = Cardinality(FailedDownloads)]
    /\ UNCHANGED <<NotDl, dlFs>>

NewJob(path) == [path |-> path, pc |-> "new", ino |-> -1, sent |-> 0]

\* The directory: missing, or there with or without earlier files at the
\* destinations; one or more scripts, whose paths may be the same.
InitDl ==
    /\ statesFile = [exists |-> FALSE, data |-> <<>>, valid |-> TRUE]
    /\ InitHandlers
    /\ InitOthers
    /\ serial = FALSE
    /\ archives = <<>> /\ volume = <<>> /\ clock = 0 /\ areq = <<>> /\ alog = <<>>
    /\ subFs = <<>> /\ subRun = <<>>
    /\ dlFs \in {[dir |-> FALSE, tmp |-> [p \in DlPaths |-> NoFile],
                  dest |-> [p \in DlPaths |-> NoFile]]}
                \cup {[dir |-> TRUE, tmp |-> [p \in DlPaths |-> NoFile], dest |-> d] :
                        d \in [DlPaths -> {NoFile, OldFile}]}
    /\ \E n \in 1..MaxDownloads : \E paths \in [1..n -> DlPaths] :
        dlRun = [pc |-> "idle", n |-> n, count |-> 0,
                 before |-> dlFs.dest,
                 job |-> [i \in 1..n |-> NewJob(paths[i])]]

NextDl ==
    \/ DlStart
    \/ \E i \in 1..dlRun.n : DlRequestError(i)
    \/ \E i \in 1..dlRun.n : DlResponse(i)
    \/ \E i \in 1..dlRun.n : DlChunk(i)
    \/ \E i \in 1..dlRun.n : DlBreak(i)
    \/ \E i \in 1..dlRun.n : DlRename(i)
    \/ \E i \in 1..dlRun.n : DlUnlink(i)
    \/ DlJoin

\* One call of downloadInstallScripts.
SpecDl == InitDl /\ [][NextDl]_vars

(***************************************************************************)
(* Claims about the downloads.                                             *)
(***************************************************************************)
\* a download whose destination no other download of the call has
Alone(i) == \A j \in 1..dlRun.n : j # i => dlRun.job[j].path # dlRun.job[i].path

Moved == {i \in 1..dlRun.n : dlRun'.job[i] # dlRun.job[i]}

LacksField(r) == req[r].kind \in {"redeploy", "reinstall", "edit"} /\ req[r].body = "missing"

\* C21: a request that is rejected because its body lacks a required field has
\* stopped, removed and created no container and removed no directory.
C21_ValidationBeforeSideEffects ==
    \A r \in Slots :
        LacksField(r) /\ req[r].pc = "done" =>
            ~req[r].stopped /\ ~req[r].removed /\ ~req[r].created /\ ~req[r].rm

\* C22: while the document does not parse, no store call changes it and every
\* call that has returned has failed with the parse error; and a document that
\* was absent is created as the empty list.
C22_UnparsableDocumentIsKept ==
    /\ [][~statesFile.valid => statesFile' = statesFile]_vars
    /\ [](~statesFile.valid => \A r \in Slots : req[r].pc = "done" => req[r].fault = "parse")
    /\ [][~statesFile.exists /\ statesFile'.exists => statesFile'.data = <<>>]_vars

\* a setState and a getState have both failed on a document that does not parse
C22_Witness ==
    /\ statesFile.exists /\ ~statesFile.valid
    /\ \E r1, r2 \in Slots :
        /\ req[r1].kind = "setState" /\ req[r1].pc = "done" /\ req[r1].fault = "parse"
        /\ req[r2].kind = "getState" /\ req[r2].pc = "done" /\ req[r2].fault = "parse"

\* C23: a power action that had not completed when the operation timeout
\* elapsed is answered 504, never 200.
C23_TimeoutAnswers504 ==
    \A r \in Slots :
        req[r].kind = "power" /\ req[r].pc = "done" /\ req[r].result = "timed out" =>
            req[r].sent = 504 /\ req[r].sent # 200

\* the step in which the handler of request r returns
Completes(r) == req[r].pc # "done" /\ req'[r].pc = "done"
DeleteKinds == {"delete", "instDelete"}

\* C24: when a delete request that has removed the instance's container
\* completes, the instance's record is DELETED and the answer is the success.
C24_DeleteStoresDeleted ==
    [][\A r \in Slots :
         Completes(r) /\ req'[r].kind \in DeleteKinds /\ req'[r].removed =>
             /\ getState(statesFile'.data, req'[r].id) = "DELETED"
             /\ req'[r].sent = 200]_vars

\* C25: when a delete request completes with the success, the instance's volume
\* directory does not exist.
C25_DeleteRemovesVolume ==
    [][\A r \in Slots :
         Completes(r) /\ req'[r].kind \in DeleteKinds /\ req'[r].sent = 200 =>
             req'[r].id \notin volumes']_vars

\* C26: when a redeploy or reinstall that has started the new container
\* completes, the instance's record is RUNNING; when a reinstall whose install
\* pipeline failed completes, it is INSTALLATION_FAILED.
C26_RedeployStoresState ==
    [][\A r \in Slots :
         Completes(r) /\ req'[r].kind \in {"redeploy", "reinstall"} =>
             /\ req'[r].started => getState(statesFile'.data, req'[r].id) = "RUNNING"
             /\ req'[r].fault \in {"download", "replaceVariables"} =>
                    getState(statesFile'.data, req'[r].id) = "INSTALLATION_FAILED"]_vars

(***************************************************************************)
(* Claims about the order of a deployment's steps and about interleaved    *)
(* writers of the store.                                                   *)
(***************************************************************************)
\* the phase whose state is stored before the handler is at pc
PhaseOf(pc) ==
    CASE pc = "pullImage" -> "PULLING_IMAGE"
      [] pc = "mkdir" -> "CREATING_VOLUME"
      [] pc = "createContainer" -> "CREATING_CONTAINER"
      [] pc = "download" -> "INSTALLING"
      [] pc = "start" -> "STARTING"
      [] OTHER -> ""

\* the step in which request r's awaited store call writes state for r's id
Stores(r, state) ==
    /\ req[r].pc = "store" /\ req[r].io = "write" /\ req[r].opState = state
    /\ getState(statesFile'.data, req[r].id) = state

\* the states POST /create stores after the 201
AfterAnswer == {"INSTALLING", "STARTING", "RUNNING", "INSTALLATION_FAILED"}

\* C27: a deployment begins a phase's action (the image pull, the mkdir,
\* createContainer, the first download, container.start()) in the step in which
\* its write of that phase's state completes; it begins to store RUNNING in the
\* step in which container.start() returns with the container running; and it
\* sends the 201 in the step in which createContainer returns, before it begins
\* to store INSTALLING or STARTING.
C27_StateStoredBeforePhase ==
    /\ [][\A r \in Slots : req'[r].kind = "create" =>
            /\ PhaseOf(req'[r].pc) # "" /\ req'[r].pc # req[r].pc =>
                   Stores(r, PhaseOf(req'[r].pc))
            /\ req'[r].opState = "RUNNING" /\ req[r].opState # "RUNNING" =>
                   /\ req[r].pc = "start"
                   /\ containers'[req[r].id].status = "running"
            /\ req'[r].sent = 201 /\ req[r].sent # 201 =>
                   /\ req[r].pc = "createContainer"
                   /\ containers'[req[r].id].status = "created"
                   /\ req'[r].opState \in {"INSTALLING", "STARTING"}
                   /\ req'[r].io \in {"create", "validate"}]_vars
    /\ [](\A r \in Slots :
            /\ req[r].kind = "create"
            /\ \/ req[r].pc \in {"download", "replaceVariables", "start"}
               \/ req[r].pc = "store" /\ req[r].opState \in AfterAnswer
            => req[r].sent = 201)

\* a deployment with install scripts has gone through every phase and answered
C27_Witness ==
    \E r \in Slots :
        /\ req[r].kind = "create" /\ req[r].pc = "done" /\ req[r].sent = 201
        /\ Len(req[r].dl) > 0 /\ req[r].started /\ req[r].fault = "none"
        /\ containers[req[r].id].status = "running"
        /\ getState(statesFile.data, req[r].id) = "RUNNING"

\* a delete request of the deployment router has stored DELETED for id
DeleteStored(id) ==
    \E d \in Slots :
        /\ req[d].kind = "delete" /\ req[d].id = id
        /\ req[d].pc = "done" /\ req[d].sent = 200

\* C28: once a delete request has stored DELETED for an instance, no step of
\* a deployment for that id changes the record.
C28_DeletedIsTerminal ==
    [][\A id \in Ids :
         DeleteStored(id) /\ getState(statesFile.data, id) = "DELETED" =>
             getState(statesFile'.data, id) = "DELETED"]_vars

\* a call of setState or setStateValue that has returned without an error
Wrote(r) ==
    /\ req[r].kind \in {"setState", "setStateValue"}
    /\ req[r].pc = "done" /\ req[r].fault = "none"

\* C29: after two writers for different ids have both returned, the store holds
\* for each id the state its own writer stored.
C29_WritersForOtherIdsKeepRecords ==
    \A r1, r2 \in Slots :
        Wrote(r1) /\ Wrote(r2) /\ req[r1].id # req[r2].id =>
            /\ getState(statesFile.data, req[r1].id) = req[r1].state
            /\ getState(statesFile.data, req[r2].id) = req[r2].state

\* the states a deployment ends in
FinalStates == {"RUNNING", "INSTALLATION_FAILED", "FAILED"}

\* no handler is in flight, and the only other request, if any, was a
\* deployment for another id
OnlyOtherDeployments(r) ==
    \A r2 \in Slots :
        /\ ~InFlight(r2)
        /\ r2 # r => req[r2].kind \in {"none", "create"} /\ req[r2].id # req[r].id

\* C30: when the handler of a POST /create that passed validation has ended,
\* alone or together with deployments for other ids, the instance's record is
\* RUNNING, INSTALLATION_FAILED or FAILED.
C30_DeploymentEndsInFinalState ==
    \A r \in Slots :
        /\ req[r].kind = "create" /\ req[r].pc = "done" /\ req[r].sent # 400
        /\ OnlyOtherDeployments(r)
        => getState(statesFile.data, req[r].id) \in FinalStates

\* C31: a POST /create request attempts to send one HTTP response at most; after
\* the 201 no failure of the install or start phase makes the handler write a
\* second response for the same request.
C31_OneResponsePerCreate ==
    \A r \in Slots : req[r].kind = "create" => req[r].attempts <= 1

\* C32: a rollback that passed the validators and safePath changes nothing in
\* the volume directory of an instance other than the one volumeId names, for
\* every accepted volumeId, "." included.
C32_RollbackKeepsOtherVolumes ==
    [][fsReq # <<>> /\ fsReq.route = "rollback" =>
         \A n \in InstanceNames :
             n # fsReq.volumeId => TreeOf(disk', n) = TreeOf(disk, n)]_vars

====
